---- MODULE Spec2Model ----
(***************************************************************************)
(* Model of the AI-continuation editor: the XState editor machine          *)
(* (src/my-react-app/src/main.tsx), the App's Continue Writing handler,    *)
(* the retry loop of the AI client and the streaming animator of the       *)
(* ProseMirror editor (src/my-react-app/src/components/                    *)
(* ProseMirrorEditor.tsx).                                                 *)
(* The formatting toolbar (FormattingToolbar.tsx) is modelled over an      *)
(* editor state of one paragraph.                                          *)
(*                                                                         *)
(* Strings of the document and of the machine's content are sequences of   *)
(* one-character strings.  Error messages are sequences of words, so that  *)
(* String.includes on a signature is membership of the word.  A nullable   *)
(* string is a sequence of length 0 (null) or 1 (the string).              *)
(***************************************************************************)
EXTENDS Integers, Sequences, FiniteSets, TLC

VARIABLES
    machine,    \* the editor actor: [value, context: EditorContext]
    last,       \* history: the last event sent, and the machine before it
    apiKey,     \* import.meta.env.VITE_GEMINI_API_KEY is set
    view,       \* viewRef.current is an EditorView (the editor is mounted)
    doc,        \* view.state.doc.textContent
    timer,      \* onChangeTimeoutRef: the text of the pending debounced onChange
    isStreaming,\* App's isStreaming state
    cycles,     \* the calls of handleContinueWriting, in order of their clicks
    retry,      \* one call of retryWithBackoff, taken alone (RetrySpec)
    client,     \* one call of continueWriting, taken alone (ClientSpec)
    stream,     \* calls of streamContent, taken alone (StreamSpec)
    toolbar,    \* the toolbar over an editor state, taken alone (ToolbarSpec)
    editor      \* the editor's timers and handle, taken alone (EditorSpec)

vars == <<machine, last, apiKey, view, doc, timer, isStreaming, cycles,
          retry, client, stream, toolbar, editor>>
appVars == <<apiKey, view, doc, timer, isStreaming, cycles, retry, client, stream, toolbar, editor>>

\* retry, client, stream, toolbar and editor where they are not looked at
noCall == [pc |-> "none"]

----------------------------------------------------------------------------
(* Bounds of the model *)

MaxLen == 2         \* longest text carried by one event
MaxContent == 5     \* longest content the machine is driven to
MaxDoc == 2         \* the user types while the document is shorter than this
MaxCycles == 2      \* clicks on Continue Writing / Retry that start a handler

Chars == {"a", " ", "\n"}

RECURSIVE SeqsUpTo(_, _)
SeqsUpTo(S, n) ==
    IF n = 0 THEN {<<>>}
    ELSE LET shorter == SeqsUpTo(S, n - 1)
         IN  shorter \cup {Append(s, c) : s \in {t \in shorter : Len(t) = n - 1}, c \in S}

Texts == SeqsUpTo(Chars, MaxLen)

----------------------------------------------------------------------------
(* Strings *)

NULL == <<>>
Str(s) == <<s>>

IsSpace(c) == c \in {" ", "\n", "\t"}

RECURSIVE trimStart(_)
trimStart(s) ==
    IF s # <<>> /\ IsSpace(Head(s)) THEN trimStart(Tail(s)) ELSE s

RECURSIVE trimEnd(_)
trimEnd(s) ==
    IF s # <<>> /\ IsSpace(s[Len(s)]) THEN trimEnd(SubSeq(s, 1, Len(s) - 1)) ELSE s

\* String.prototype.trim
trim(s) == trimEnd(trimStart(s))

----------------------------------------------------------------------------
(* Error messages.  A message is the sequence of its words; every signature *)
(* that the code looks for with String.includes is a word of its own.      *)

Includes(msg, word) == \E k \in 1..Len(msg) : msg[k] = word

\* continueWriting, the literals of its throw statements
MsgNoKey ==
    <<"Gemini", "API", "key", "is", "not", "configured.", "Please", "set",
      "VITE_GEMINI_", "API_KEY", "in", "your", ".env", "file.">>
MsgInvalidKey ==
    <<"Invalid", "Gemini", "API", "key.", "Please", "check", "your",
      "VITE_GEMINI_", "API_KEY", ".">>
MsgQuota ==
    <<"API", "quota", "exceeded.", "Please", "try", "again", "later.">>
MsgOverloaded ==
    <<"The", "AI", "model", "is", "currently", "overloaded", ".", "Please",
      "try", "again", "in", "a", "moment.">>
MsgModelUnavailable ==
    <<"The", "requested", "AI", "model", "is", "not", "available.", "Please",
      "check", "your", "API", "configuration.">>
MsgGeneric(message) == <<"Failed", "to", "generate", "paragraph:">> \o message
MsgNoModels(message) ==
    <<"No", "available", "models", "found.", "Last", "error:">> \o message

mapError_quotaFirst(message) ==
    IF Includes(message, "quota") \/ Includes(message, "429") THEN MsgQuota
    ELSE IF Includes(message, "API_KEY") \/ Includes(message, "401")
         THEN MsgInvalidKey
    ELSE IF Includes(message, "503") \/ Includes(message, "overloaded") THEN MsgOverloaded
    ELSE IF Includes(message, "404") \/ Includes(message, "not found")
         THEN MsgModelUnavailable
    ELSE MsgGeneric(message)

\* continueWriting, the catch block that maps an attempt's failure
mapError(message) ==
    IF Includes(message, "API_KEY") \/ Includes(message, "401") THEN MsgInvalidKey
    ELSE IF Includes(message, "quota") \/ Includes(message, "429") THEN MsgQuota
    ELSE IF Includes(message, "503") \/ Includes(message, "overloaded") THEN MsgOverloaded
    ELSE IF Includes(message, "404") \/ Includes(message, "not found")
         THEN MsgModelUnavailable
    ELSE MsgGeneric(message)

\* What the generation calls of one attempt can fail with
ProviderErrors == {<<"401">>, <<"503">>, <<"network">>}

\* The failures one attempt of continueWriting can end with
AttemptErrors == {mapError(e) : e \in ProviderErrors}

\* The continuations one attempt can end with: trimmed and not empty
Continuations == {<<"b", "c">>}

Messages == {MsgOverloaded, MsgGeneric(<<"boom">>)}

----------------------------------------------------------------------------
(* The editor machine, main.tsx *)

Event(t, c, e) == [type |-> t, content |-> c, error |-> e]

EvCONTINUE_WRITING == Event("CONTINUE_WRITING", <<>>, <<>>)
EvCONTENT_UPDATED(c) == Event("CONTENT_UPDATED", c, <<>>)
EvAI_RESPONSE(c) == Event("AI_RESPONSE", c, <<>>)
EvERROR(e) == Event("ERROR", <<>>, e)
EvRESET == Event("RESET", <<>>, <<>>)

initialContext == [content |-> <<>>, isLoading |-> FALSE, error |-> NULL]

initialMachine == [value |-> "idle", context |-> initialContext]

hasContent_untrimmed(context) == Len(context.content) > 0

\* guards.hasContent
hasContent(context) == Len(trim(context.content)) > 0

loading_entry_keepsError(context) == [context EXCEPT !.isLoading = TRUE]

\* states.loading.entry
loading_entry(context) ==
    [context EXCEPT !.isLoading = TRUE, !.error = NULL]

\* states.idle.on.CONTINUE_WRITING
idle_CONTINUE_WRITING(m) ==
    IF hasContent(m.context)
    THEN [value |-> "loading", context |-> loading_entry(m.context)]
    ELSE m

\* states.idle.on.CONTENT_UPDATED
idle_CONTENT_UPDATED(m, event) ==
    [m EXCEPT !.context.content = event.content]

loading_AI_RESPONSE_noSeparator(m, event) ==
    [value |-> "idle",
     context |-> [m.context EXCEPT
                    !.content = m.context.content \o event.content,
                    !.isLoading = FALSE]]

\* states.loading.on.AI_RESPONSE
loading_AI_RESPONSE(m, event) ==
    [value |-> "idle",
     context |-> [m.context EXCEPT
                    !.content = m.context.content \o <<" ">> \o event.content,
                    !.isLoading = FALSE]]

loading_ERROR_keepsLoading(m, event) ==
    [value |-> "idle",
     context |-> [m.context EXCEPT !.error = Str(event.error)]]

loading_ERROR_dropsMessage(m, event) ==
    [value |-> "idle", context |-> [m.context EXCEPT !.isLoading = FALSE]]

\* states.loading.on.ERROR
loading_ERROR(m, event) ==
    [value |-> "idle",
     context |-> [m.context EXCEPT
                    !.error = Str(event.error),
                    !.isLoading = FALSE]]

loading_CONTENT_UPDATED_missing(m, event) == m

\* states.loading.on.CONTENT_UPDATED
loading_CONTENT_UPDATED(m, event) ==
    [m EXCEPT !.context.content = event.content]

root_RESET_keepsError(m) ==
    [value |-> "idle",
     context |-> [m.context EXCEPT !.content = <<>>, !.isLoading = FALSE]]

\* on.RESET
root_RESET(m) ==
    [value |-> "idle",
     context |-> [content |-> <<>>, isLoading |-> FALSE, error |-> NULL]]

\* A variant in which AI_RESPONSE and ERROR are handled at the root, so in
\* idle too.
editorMachine_rootHandlers(m, event) ==
    CASE m.value = "idle" /\ event.type = "CONTINUE_WRITING" ->
            idle_CONTINUE_WRITING(m)
      [] m.value = "idle" /\ event.type = "CONTENT_UPDATED" ->
            idle_CONTENT_UPDATED(m, event)
      [] event.type = "AI_RESPONSE" ->
            loading_AI_RESPONSE(m, event)
      [] event.type = "ERROR" ->
            loading_ERROR(m, event)
      [] m.value = "loading" /\ event.type = "CONTENT_UPDATED" ->
            loading_CONTENT_UPDATED(m, event)
      [] event.type = "RESET" ->
            root_RESET(m)
      [] OTHER -> m

\* One event processed by the actor: the transition of the current state
\* when it has one for the event, else the root's, else nothing.
editorMachine(m, event) ==
    CASE m.value = "idle" /\ event.type = "CONTINUE_WRITING" ->
            idle_CONTINUE_WRITING(m)
      [] m.value = "idle" /\ event.type = "CONTENT_UPDATED" ->
            idle_CONTENT_UPDATED(m, event)
      [] m.value = "loading" /\ event.type = "AI_RESPONSE" ->
            loading_AI_RESPONSE(m, event)
      [] m.value = "loading" /\ event.type = "ERROR" ->
            loading_ERROR(m, event)
      [] m.value = "loading" /\ event.type = "CONTENT_UPDATED" ->
            loading_CONTENT_UPDATED(m, event)
      [] event.type = "RESET" ->
            root_RESET(m)
      [] OTHER -> m

NoEvent == Event("none", <<>>, <<>>)

Sent(m, event) == [event |-> event, before |-> m]

----------------------------------------------------------------------------
(* MachineSpec: the machine alone, driven by every sequence of events *)

MachineInit ==
    /\ machine = initialMachine
    /\ last = Sent(initialMachine, NoEvent)
    /\ apiKey = TRUE
    /\ view = TRUE
    /\ doc = <<>>
    /\ timer = NULL
    /\ isStreaming = FALSE
    /\ cycles = <<>>
    /\ retry = noCall
    /\ client = noCall
    /\ stream = noCall
    /\ toolbar = noCall
    /\ editor = noCall

\* The content stays within MaxContent.
Fits(m, event) ==
    Len(editorMachine(m, event).context.content) <= MaxContent

SendEvent(event) ==
    /\ Fits(machine, event)
    /\ machine' = editorMachine(machine, event)
    /\ last' = Sent(machine, event)
    /\ UNCHANGED appVars

SendCONTINUE_WRITING == SendEvent(EvCONTINUE_WRITING)
SendCONTENT_UPDATED == \E c \in Texts : SendEvent(EvCONTENT_UPDATED(c))
SendAI_RESPONSE == \E c \in Texts : SendEvent(EvAI_RESPONSE(c))
SendERROR == \E e \in Messages : SendEvent(EvERROR(e))
SendRESET == SendEvent(EvRESET)

MachineNext ==
    \/ SendCONTINUE_WRITING
    \/ SendCONTENT_UPDATED
    \/ SendAI_RESPONSE
    \/ SendERROR
    \/ SendRESET

MachineSpec == MachineInit /\ [][MachineNext]_vars

----------------------------------------------------------------------------
(* Properties of the editor machine, under MachineSpec *)

\* C2: isLoading is true exactly when the machine is in state loading; it is
\* false after AI_RESPONSE, ERROR and RESET, and it turns true only by a
\* CONTINUE_WRITING that was accepted (idle, content not empty after trim).
C2_LoadingFlag ==
    /\ machine.context.isLoading <=> machine.value = "loading"
    /\ last.event.type \in {"AI_RESPONSE", "ERROR", "RESET"}
            => ~machine.context.isLoading
    /\ (machine.context.isLoading /\ ~last.before.context.isLoading)
            => /\ last.event.type = "CONTINUE_WRITING"
               /\ last.before.value = "idle"
               /\ hasContent(last.before.context)

\* A loading period was ended by ERROR: the flag is down again in idle.
C2_Witness ==
    /\ last.event.type = "ERROR"
    /\ last.before.value = "loading"
    /\ last.before.context.isLoading
    /\ machine.value = "idle"
    /\ ~machine.context.isLoading

\* C6: in idle with content not empty after trim, CONTINUE_WRITING gives
\* loading with isLoading = true, error = null and the content unchanged.
C6_ContinueAccepted ==
    (/\ last.event.type = "CONTINUE_WRITING"
     /\ last.before.value = "idle"
     /\ Len(trim(last.before.context.content)) > 0)
        => machine = [value |-> "loading",
                      context |-> [content |-> last.before.context.content,
                                   isLoading |-> TRUE,
                                   error |-> NULL]]

\* CONTINUE_WRITING was accepted with the error of an earlier cycle set.
C6_Witness ==
    /\ last.event.type = "CONTINUE_WRITING"
    /\ last.before.value = "idle"
    /\ last.before.context.error # NULL
    /\ machine.value = "loading"
    /\ machine.context.error = NULL

\* C7: CONTINUE_WRITING in idle with empty or whitespace-only content, and in
\* loading, changes nothing of the machine.
C7_ContinueRejected ==
    (/\ last.event.type = "CONTINUE_WRITING"
     /\ \/ last.before.value = "loading"
        \/ Len(trim(last.before.context.content)) = 0)
        => machine = last.before

\* CONTINUE_WRITING was sent in idle with whitespace-only content.
C7_Witness ==
    /\ last.event.type = "CONTINUE_WRITING"
    /\ last.before.value = "idle"
    /\ last.before.context.content # <<>>
    /\ Len(trim(last.before.context.content)) = 0
    /\ machine = last.before

\* C8: CONTENT_UPDATED(text), in idle and in loading alike, sets content to
\* text and leaves the state, isLoading and error as they were.
C8_ContentUpdated ==
    last.event.type = "CONTENT_UPDATED"
        => machine = [last.before EXCEPT !.context.content = last.event.content]

\* CONTENT_UPDATED was sent during loading with another text.
C8_Witness ==
    /\ last.event.type = "CONTENT_UPDATED"
    /\ last.before.value = "loading"
    /\ last.event.content # last.before.context.content
    /\ machine.value = "loading"
    /\ machine.context.content = last.event.content

\* C9: in loading, AI_RESPONSE(text) gives idle with isLoading = false and
\* content = the content held then, one space, text; error stays null.
C9_AiResponse ==
    (last.event.type = "AI_RESPONSE" /\ last.before.value = "loading")
        => /\ machine.value = "idle"
           /\ ~machine.context.isLoading
           /\ machine.context.content =
                last.before.context.content \o <<" ">> \o last.event.content
           /\ machine.context.error = last.before.context.error
           /\ machine.context.error = NULL

\* AI_RESPONSE was sent in loading, both texts not empty.
C9_Witness ==
    /\ last.event.type = "AI_RESPONSE"
    /\ last.before.value = "loading"
    /\ last.event.content # <<>>
    /\ Len(last.before.context.content) > 1
    /\ machine.value = "idle"

\* C10: in loading, ERROR(message) gives idle with error = message and
\* isLoading = false and leaves the content unchanged.
C10_Error ==
    (last.event.type = "ERROR" /\ last.before.value = "loading")
        => machine = [value |-> "idle",
                      context |-> [content |-> last.before.context.content,
                                   isLoading |-> FALSE,
                                   error |-> Str(last.event.error)]]

\* ERROR was sent in loading and its message is the machine's error.
C10_Witness ==
    /\ last.event.type = "ERROR"
    /\ last.before.value = "loading"
    /\ last.before.context.content # <<>>
    /\ machine.context.error = Str(last.event.error)

\* C11: RESET in idle and in loading, whatever the content and the error,
\* gives idle with the context {content: "", isLoading: false, error: null}.
C11_Reset ==
    last.event.type = "RESET"
        => machine = [value |-> "idle",
                      context |-> [content |-> <<>>,
                                   isLoading |-> FALSE,
                                   error |-> NULL]]

\* RESET was sent in idle with content and an error set.
C11_Witness ==
    /\ last.event.type = "RESET"
    /\ last.before.value = "idle"
    /\ last.before.context.content # <<>>
    /\ last.before.context.error # NULL
    /\ machine = initialMachine

\* RESET was sent in loading.
C11_WitnessLoading ==
    /\ last.event.type = "RESET"
    /\ last.before.value = "loading"
    /\ machine = initialMachine

----------------------------------------------------------------------------
(* retryWithBackoff, as continueWriting calls it *)

maxRetries == 3
initialDelay == 1000

isRetryable_withoutTimeout(message) ==
    /\ \/ Includes(message, "503")
       \/ Includes(message, "overloaded")
       \/ Includes(message, "429")
       \/ Includes(message, "quota")
       \/ Includes(message, "network")
       \/ Includes(message, "ECONNRESET")
    /\ ~Includes(message, "404")
    /\ ~Includes(message, "not found")

\* retryWithBackoff, isRetryable
isRetryable(message) ==
    /\ \/ Includes(message, "503")
       \/ Includes(message, "overloaded")
       \/ Includes(message, "429")
       \/ Includes(message, "quota")
       \/ Includes(message, "network")
       \/ Includes(message, "ECONNRESET")
       \/ Includes(message, "ETIMEDOUT")
    /\ ~Includes(message, "404")
    /\ ~Includes(message, "not found")

throwsOf_onlyLast(message, attempt, max) == attempt = max - 1

throwsOf_offByOne(message, attempt, max) ==
    ~isRetryable(message) \/ attempt = max

\* retryWithBackoff: the failure of this attempt is thrown to the caller
throwsOf(message, attempt, max) ==
    ~isRetryable(message) \/ attempt = max - 1

throws_onlyFatal(message, attempt) == ~isRetryable(message)

throws_onlyLast(message, attempt) == attempt = maxRetries - 1

\* the same, with the maxRetries that continueWriting passes
throws(message, attempt) == throwsOf(message, attempt, maxRetries)

backoffDelay_constant(delay, attempt) == delay

\* retryWithBackoff: the delay before the next attempt
backoffDelay(delay, attempt) == delay * 2 ^ attempt

\* What fn can throw: an Error with a message, or something else
Thrown(message) == [isError |-> TRUE, message |-> message]
ThrownOther == [isError |-> FALSE, message |-> <<>>]

\* retryWithBackoff: lastError.message
normalize(thrown) ==
    IF thrown.isError THEN thrown.message ELSE <<"Unknown", "error">>

----------------------------------------------------------------------------
(* RetrySpec: one call retryWithBackoff(fn, maxRetries, initialDelay), for   *)
(* every behaviour of fn                                                   *)

MaxBudget == 4      \* largest maxRetries a call is given

InitialDelays == {1, initialDelay}

RetrySignatures ==
    {"503", "overloaded", "429", "quota", "network", "ECONNRESET", "ETIMEDOUT"}
NotFoundSignatures == {"404", "not found"}

\* The messages fn fails with
RetryMessages ==
    {<<w>> : w \in RetrySignatures}
        \cup {<<"503", "404">>, <<"network", "not found">>, <<"404">>,
              <<"not found">>, <<"401">>, <<"boom">>}

RetryThrown == {Thrown(m) : m \in RetryMessages} \cup {ThrownOther}

\* The values fn returns
RetryValues == {<<"x">>, <<"y">>}

\* The call after its entry: attempt 0 has called fn.
\*   pc: "attempt" (fn is awaited), "wait" (the backoff delay is awaited),
\*       "returned", "thrown"
\*   history: calls (calls of fn), waits (the delays waited, in order), log
\*       (what each call of fn ended with)
newRetry(max, delay) ==
    [pc |-> "attempt", maxRetries |-> max, initialDelay |-> delay,
     attempt |-> 0, lastError |-> NULL, value |-> NULL, error |-> NULL,
     calls |-> 1, waits |-> <<>>, log |-> <<>>]

Returned(value) == [ok |-> TRUE, value |-> value, message |-> <<>>]
Failed(message) == [ok |-> FALSE, value |-> <<>>, message |-> message]

RetryInit ==
    /\ machine = initialMachine
    /\ last = Sent(initialMachine, NoEvent)
    /\ apiKey = TRUE
    /\ view = TRUE
    /\ doc = <<>>
    /\ timer = NULL
    /\ isStreaming = FALSE
    /\ cycles = <<>>
    /\ client = noCall
    /\ stream = noCall
    /\ toolbar = noCall
    /\ editor = noCall
    /\ retry \in {newRetry(max, delay) : max \in 1..MaxBudget,
                                         delay \in InitialDelays}

retryFrame == <<machine, last, apiKey, view, doc, timer, isStreaming, cycles,
                client, stream, toolbar, editor>>

\* fn returns: retryWithBackoff returns its value.
FnReturns ==
    /\ retry.pc = "attempt"
    /\ \E value \in RetryValues :
        retry' = [retry EXCEPT
                    !.pc = "returned",
                    !.value = Str(value),
                    !.log = Append(@, Returned(value))]
    /\ UNCHANGED retryFrame

\* fn throws: the error is thrown on, or the backoff delay starts.
FnThrows ==
    /\ retry.pc = "attempt"
    /\ \E thrown \in RetryThrown :
        LET message == normalize(thrown)
            r == [retry EXCEPT
                    !.lastError = Str(message),
                    !.log = Append(@, Failed(message))]
        IN  IF throwsOf(message, retry.attempt, retry.maxRetries)
            THEN retry' = [r EXCEPT !.pc = "thrown", !.error = Str(message)]
            ELSE retry' = [r EXCEPT
                    !.pc = "wait",
                    !.waits = Append(@, backoffDelay(retry.initialDelay,
                                                     retry.attempt))]
    /\ UNCHANGED retryFrame

\* The backoff delay elapses: the next attempt, or the throw after the loop.
DelayElapses ==
    /\ retry.pc = "wait"
    /\ IF retry.attempt + 1 < retry.maxRetries
       THEN retry' = [retry EXCEPT
                        !.pc = "attempt",
                        !.attempt = @ + 1,
                        !.calls = @ + 1]
       ELSE retry' = [retry EXCEPT
                        !.pc = "thrown",
                        !.attempt = @ + 1,
                        !.error = retry.lastError]
    /\ UNCHANGED retryFrame

RetryNext ==
    \/ FnReturns
    \/ FnThrows
    \/ DelayElapses

RetrySpec == RetryInit /\ [][RetryNext]_vars

\* every call of fn so far failed with a retryable error
AllRetryable(log) ==
    \A k \in 1..Len(log) : ~log[k].ok /\ isRetryable(log[k].message)

\* C12: when fn fails k times with retryable errors and then succeeds
\* (k < maxRetries), fn was called exactly k + 1 times, the wait after the
\* failure of attempt i was initialDelay * 2^i, and the value of the last call
\* is returned.
C12_RetryThenSuccess ==
    LET n == Len(retry.log)
    IN  (n > 0 /\ retry.log[n].ok)
            => /\ AllRetryable(SubSeq(retry.log, 1, n - 1))
               /\ n - 1 < retry.maxRetries
               /\ retry.pc = "returned"
               /\ retry.calls = n
               /\ Len(retry.waits) = n - 1
               /\ \A k \in 1..(n - 1) :
                    retry.waits[k] = retry.initialDelay * 2 ^ (k - 1)
               /\ retry.value = Str(retry.log[n].value)
               /\ retry.error = NULL

\* The defaults, two failures and then success: 3 calls, waits 1000 and 2000.
C12_Witness ==
    /\ retry.pc = "returned"
    /\ retry.maxRetries = 3
    /\ retry.initialDelay = 1000
    /\ retry.calls = 3
    /\ retry.waits = <<1000, 2000>>
    /\ retry.value = Str(retry.log[3].value)

\* C13: when the first call of fn fails with a non-retryable error, fn was
\* called once, nothing was waited and that error is thrown.
C13_FatalAtOnce ==
    (/\ Len(retry.log) > 0
     /\ ~retry.log[1].ok
     /\ ~isRetryable(retry.log[1].message))
        => /\ retry.pc = "thrown"
           /\ retry.calls = 1
           /\ Len(retry.log) = 1
           /\ retry.waits = <<>>
           /\ retry.error = Str(retry.log[1].message)
           /\ retry.value = NULL

\* The first call failed with a message without any retry signature, with
\* attempts left.
C13_Witness ==
    /\ retry.pc = "thrown"
    /\ retry.maxRetries = 3
    /\ retry.calls = 1
    /\ retry.log = <<Failed(<<"boom">>)>>
    /\ retry.error = Str(<<"boom">>)

\* C14: fn is never called more than maxRetries times; when every call fails
\* with a retryable error, the call ends after exactly maxRetries calls and
\* maxRetries - 1 waits, throwing the error of the last call.
C14_Exhausted ==
    /\ retry.calls <= retry.maxRetries
    /\ Len(retry.log) <= retry.maxRetries
    /\ (AllRetryable(retry.log) /\ Len(retry.log) = retry.maxRetries)
            => retry.pc = "thrown"
    /\ (AllRetryable(retry.log) /\ retry.pc = "thrown")
            => /\ retry.calls = retry.maxRetries
               /\ Len(retry.log) = retry.maxRetries
               /\ Len(retry.waits) = retry.maxRetries - 1
               /\ retry.error = Str(retry.log[Len(retry.log)].message)

\* Three calls failed with three different retryable errors.
C14_Witness ==
    /\ retry.pc = "thrown"
    /\ retry.maxRetries = 3
    /\ retry.log = <<Failed(<<"503">>), Failed(<<"quota">>),
                     Failed(<<"network">>)>>
    /\ Len(retry.waits) = 2
    /\ retry.error = Str(<<"network">>)

Words(message) == {message[k] : k \in 1..Len(message)}

\* C15: a failure with attempts left is retried exactly when its message has
\* one of '503', 'overloaded', '429', 'quota', 'network', 'ECONNRESET',
\* 'ETIMEDOUT' and neither '404' nor 'not found'; every other failure is
\* thrown at once.
C15_Classification ==
    LET n == Len(retry.log)
    IN  (n > 0 /\ ~retry.log[n].ok /\ n < retry.maxRetries)
            => (retry.pc # "thrown"
                    <=> /\ Words(retry.log[n].message) \cap RetrySignatures # {}
                        /\ Words(retry.log[n].message) \cap NotFoundSignatures
                                = {})

\* A timeout is waited for, and an overload that is also a 404 is thrown.
C15_Witness ==
    /\ retry.maxRetries = 3
    /\ Len(retry.log) = 2
    /\ retry.log[1] = Failed(<<"ETIMEDOUT">>)
    /\ retry.log[2] = Failed(<<"503", "404">>)
    /\ retry.pc = "thrown"

----------------------------------------------------------------------------
(* ClientSpec: one call continueWriting(request), for every behaviour of    *)
(* the generation calls                                                    *)

MsgNoText == <<"No", "text", "provided.">>
MsgEmpty ==
    <<"Empty", "response", "from", "API.", "The", "model", "did", "not",
      "generate", "any", "content.">>

\* continueWriting, modelsToTry
modelsToTry ==
    <<"gemini-2.5-flash", "gemini-2.5-pro", "gemini-1.5-flash",
      "gemini-1.5-pro", "gemini-pro">>

\* request.text
RequestTexts == {<<>>, <<" ">>, <<"\n", " ">>, <<"a">>, <<" ", "a">>}

validate_untrimmed(key, text) ==
    IF ~key THEN Str(MsgNoKey)
    ELSE IF text = <<>> THEN Str(MsgNoText)
    ELSE NULL

validate_textFirst(key, text) ==
    IF trim(text) = <<>> THEN Str(MsgNoText)
    ELSE IF ~key THEN Str(MsgNoKey)
    ELSE NULL

\* continueWriting: the checks before the retry loop; the message thrown, or
\* null
validate(key, text) ==
    IF ~key THEN Str(MsgNoKey)
    ELSE IF trim(text) = <<>> THEN Str(MsgNoText)
    ELSE NULL

isNotFound_only404(message) == Includes(message, "404")

isNotFound_always(message) == TRUE

\* the fallback loop's catch block: the failure moves on to the next model
isNotFound(message) ==
    Includes(message, "404") \/ Includes(message, "not found")

\* the fallback loop's catch block: lastModelError.message
modelNormalize(thrown) ==
    IF thrown.isError THEN thrown.message ELSE <<"Unknown", "model", "error">>

\* What generateContent fails with
ModelMessages ==
    {<<"404">>, <<"not found">>, <<"404", "quota">>, <<"503">>, <<"401">>,
     <<"quota", "401">>, <<"network">>, <<"boom">>}

ModelThrown == {Thrown(m) : m \in ModelMessages} \cup {ThrownOther}

\* result.response: text() returns text or throws; candidates[0].content.parts
\* is there or not, parts is its texts joined
Response(textThrows, text, hasParts, parts) ==
    [textThrows |-> textThrows, text |-> text, hasParts |-> hasParts,
     parts |-> parts]

ResponseTexts == {<<>>, <<" ">>, <<" ", "b">>}
PartsTexts == {<<>>, <<"\n">>, <<"c", " ">>}

Responses ==
    {Response(FALSE, t, FALSE, <<>>) : t \in ResponseTexts}
        \cup {Response(FALSE, t, TRUE, p) : t \in ResponseTexts, p \in PartsTexts}
        \cup {Response(TRUE, <<>>, FALSE, <<>>)}
        \cup {Response(TRUE, <<>>, TRUE, p) : p \in PartsTexts}

noResponse == Response(TRUE, <<>>, FALSE, <<>>)

extractText_untrimmed(response) ==
    LET first == IF ~response.textThrows THEN response.text
                 ELSE IF response.hasParts THEN trim(response.parts)
                 ELSE <<>>
    IN  IF trim(first) = <<>> /\ response.hasParts
        THEN trim(response.parts)
        ELSE first

\* continueWriting: the text taken from the response, trimmed; '' when every
\* way of reading it gives no text
extractText(response) ==
    LET first == IF ~response.textThrows THEN response.text
                 ELSE IF response.hasParts THEN trim(response.parts)
                 ELSE <<>>
        second == IF trim(first) = <<>> /\ response.hasParts
                  THEN trim(response.parts)
                  ELSE first
    IN  trim(second)

Resolved(response) ==
    [ok |-> TRUE, message |-> <<>>, response |-> response]
Rejected(message) ==
    [ok |-> FALSE, message |-> message, response |-> noResponse]

Call(attempt, model) == [attempt |-> attempt, model |-> model]

\* continueWriting has been called with request.text = text.
\*   pc: "entry", "model" (generateContent of modelsToTry[model] is awaited),
\*       "wait" (the backoff delay is awaited), "returned", "thrown"
\*   history: calls (the generation calls, in order), tried (what each
\*       generation call of this attempt ended with), raised (what each
\*       failed attempt threw inside its try block), failures (what each
\*       failed attempt threw to retryWithBackoff), waits (the delays waited)
newClient(text) ==
    [pc |-> "entry", text |-> text, userText |-> <<>>, attempt |-> 0,
     model |-> 0, lastModelError |-> NULL, value |-> NULL, error |-> NULL,
     calls |-> <<>>, tried |-> <<>>, raised |-> <<>>, failures |-> <<>>,
     waits |-> <<>>]

ClientInit ==
    /\ machine = initialMachine
    /\ last = Sent(initialMachine, NoEvent)
    /\ apiKey \in BOOLEAN
    /\ view = TRUE
    /\ doc = <<>>
    /\ timer = NULL
    /\ isStreaming = FALSE
    /\ cycles = <<>>
    /\ retry = noCall
    /\ stream = noCall
    /\ toolbar = noCall
    /\ editor = noCall
    /\ client \in {newClient(text) : text \in RequestTexts}

clientFrame == <<machine, last, apiKey, view, doc, timer, isStreaming, cycles,
                 retry, stream, toolbar, editor>>

\* A variant in which a retried attempt resumes the fallback loop at the model
\* the attempt before it ended with.
startAttempt_resuming(c, attempt) ==
    [c EXCEPT
        !.pc = "model",
        !.attempt = attempt,
        !.model = IF attempt = 0 THEN 1 ELSE c.model,
        !.lastModelError = NULL,
        !.tried = <<>>,
        !.calls = Append(@, Call(attempt, IF attempt = 0 THEN 1 ELSE c.model))]

\* An attempt starts: the fallback loop calls generateContent of the first
\* model.
startAttempt(c, attempt) ==
    [c EXCEPT
        !.pc = "model",
        !.attempt = attempt,
        !.model = 1,
        !.lastModelError = NULL,
        !.tried = <<>>,
        !.calls = Append(@, Call(attempt, 1))]

\* The attempt throws message inside its try block: the catch block maps it
\* and retryWithBackoff throws it or waits.
attemptFails(c, message) ==
    LET mapped == mapError(message)
        f == [c EXCEPT
                !.raised = Append(@, message),
                !.failures = Append(@, mapped)]
    IN  IF throws(mapped, c.attempt)
        THEN [f EXCEPT !.pc = "thrown", !.error = Str(mapped)]
        ELSE [f EXCEPT
                !.pc = "wait",
                !.waits = Append(@, backoffDelay(initialDelay, c.attempt))]

\* continueWriting is entered: the checks, then the first attempt.
ContinueWritingCalled ==
    /\ client.pc = "entry"
    /\ LET invalid == validate(apiKey, client.text)
       IN  IF invalid # NULL
           THEN client' = [client EXCEPT !.pc = "thrown", !.error = invalid]
           ELSE client' = startAttempt(
                    [client EXCEPT !.userText = trim(client.text)], 0)
    /\ UNCHANGED clientFrame

\* generateContent resolves: the loop breaks and the text is extracted.
ModelResolves ==
    /\ client.pc = "model"
    /\ \E response \in Responses :
        LET c == [client EXCEPT !.tried = Append(@, Resolved(response))]
            text == extractText(response)
        IN  IF text = <<>>
            THEN client' = attemptFails(c, MsgEmpty)
            ELSE client' = [c EXCEPT !.pc = "returned", !.value = Str(text)]
    /\ UNCHANGED clientFrame

\* generateContent rejects: the next model, the aggregate error after the last
\* model, or the failure itself.
ModelRejects ==
    /\ client.pc = "model"
    /\ \E thrown \in ModelThrown :
        LET message == modelNormalize(thrown)
            c == [client EXCEPT
                    !.tried = Append(@, Rejected(message)),
                    !.lastModelError = Str(message)]
        IN  IF isNotFound(message)
            THEN IF client.model < Len(modelsToTry)
                 THEN client' = [c EXCEPT
                        !.model = @ + 1,
                        !.calls = Append(@, Call(c.attempt, c.model + 1))]
                 ELSE client' = attemptFails(c, MsgNoModels(message))
            ELSE client' = attemptFails(c, message)
    /\ UNCHANGED clientFrame

\* The backoff delay elapses: the next attempt.
ClientDelayElapses ==
    /\ client.pc = "wait"
    /\ client' = startAttempt(client, client.attempt + 1)
    /\ UNCHANGED clientFrame

ClientNext ==
    \/ ContinueWritingCalled
    \/ ModelResolves
    \/ ModelRejects
    \/ ClientDelayElapses

ClientSpec == ClientInit /\ [][ClientNext]_vars

\* the generation calls of the attempt that is running, or that ran last
AttemptCalls ==
    SelectSeq(client.calls, LAMBDA call : call.attempt = client.attempt)

HasNotFound(message) == Words(message) \cap NotFoundSignatures # {}

\* C16 as stated: whenever the trimmed text is empty, continueWriting fails
\* with the validation error and issues no network call.
C16_EmptyTextIsValidationError ==
    (client.pc # "entry" /\ trim(client.text) = <<>>)
        => /\ client.pc = "thrown"
           /\ client.error = Str(MsgNoText)
           /\ client.calls = <<>>

\* C16, amended: whenever the trimmed text is empty, continueWriting fails
\* before any network call and before the retry loop; with the validation error
\* when a credential is configured, with the configuration error when none is.
C16_EmptyTextRejected ==
    (client.pc # "entry" /\ trim(client.text) = <<>>)
        => /\ client.pc = "thrown"
           /\ client.error = IF apiKey THEN Str(MsgNoText) ELSE Str(MsgNoKey)
           /\ client.calls = <<>>
           /\ client.waits = <<>>

\* A text of white space only, with a credential.
C16_Witness ==
    /\ apiKey
    /\ client.text = <<"\n", " ">>
    /\ client.pc = "thrown"
    /\ client.error = Str(MsgNoText)
    /\ client.calls = <<>>

\* C17: with no credential, continueWriting fails when it is called, with the
\* configuration error, with no generation call, no attempt and no wait,
\* whatever the text is; nothing has failed before the call.
C17_NoCredential ==
    ~apiKey
        => /\ client.pc \in {"entry", "thrown"}
           /\ client.pc = "entry" => client.error = NULL
           /\ client.pc = "thrown" => client.error = Str(MsgNoKey)
           /\ client.calls = <<>>
           /\ client.failures = <<>>
           /\ client.waits = <<>>

\* No credential, a text that is fine.
C17_Witness ==
    /\ ~apiKey
    /\ client.text = <<"a">>
    /\ client.pc = "thrown"
    /\ client.error = Str(MsgNoKey)

\* No credential, an empty text.
C17_WitnessEmptyText ==
    /\ ~apiKey
    /\ client.text = <<>>
    /\ client.pc = "thrown"
    /\ client.error = Str(MsgNoKey)

\* C18: within an attempt the models are called in list order; every call
\* before the last one failed with '404' or 'not found'; such a failure of a
\* model that is not the last one leads to the call of the next model and to no
\* error; when a call resolves no later model is called, and its text (when it
\* has one) is what continueWriting returns.
C18_Fallback ==
    LET n == Len(client.tried)
    IN  /\ Len(AttemptCalls) <= Len(modelsToTry)
        /\ \A k \in 1..Len(AttemptCalls) : AttemptCalls[k].model = k
        /\ \A k \in 1..(n - 1) :
            ~client.tried[k].ok /\ HasNotFound(client.tried[k].message)
        /\ (/\ n > 0
            /\ n < Len(modelsToTry)
            /\ ~client.tried[n].ok
            /\ HasNotFound(client.tried[n].message))
                => /\ client.pc = "model"
                   /\ client.model = n + 1
                   /\ Len(AttemptCalls) = n + 1
                   /\ client.error = NULL
        /\ (n > 0 /\ client.tried[n].ok)
                => /\ client.pc # "model"
                   /\ Len(AttemptCalls) = n
                   /\ extractText(client.tried[n].response) # <<>>
                        => /\ client.pc = "returned"
                           /\ client.value =
                                Str(extractText(client.tried[n].response))

\* The first two models are not found, the third answers: three calls.
C18_Witness ==
    /\ client.pc = "returned"
    /\ client.tried = <<Rejected(<<"404">>), Rejected(<<"not found">>),
                        Resolved(Response(FALSE, <<" ", "b">>, FALSE, <<>>))>>
    /\ client.calls = <<Call(0, 1), Call(0, 2), Call(0, 3)>>
    /\ client.value = Str(<<"b">>)

\* C19: when a generation call fails with a message that has neither '404' nor
\* 'not found', no later model is called in that attempt and the attempt fails
\* with that failure (as the catch block maps it).
C19_Abort ==
    LET n == Len(client.tried)
    IN  (/\ n > 0
         /\ ~client.tried[n].ok
         /\ ~HasNotFound(client.tried[n].message))
            => /\ client.pc \in {"wait", "thrown"}
               /\ Len(AttemptCalls) = n
               /\ client.failures # <<>>
               /\ client.failures[Len(client.failures)]
                    = mapError(client.tried[n].message)
               /\ client.pc = "thrown"
                    => client.error = Str(mapError(client.tried[n].message))

\* The first model is not found, the second one rejects the credential.
C19_Witness ==
    /\ client.pc = "thrown"
    /\ client.tried = <<Rejected(<<"404">>), Rejected(<<"401">>)>>
    /\ client.calls = <<Call(0, 1), Call(0, 2)>>
    /\ client.error = Str(MsgInvalidKey)

\* C20 as stated: when every model of the chain failed, continueWriting fails
\* with the aggregate error that names the last model error.
C20_AggregateError ==
    (/\ Len(client.tried) = Len(modelsToTry)
     /\ \A k \in 1..Len(client.tried) : ~client.tried[k].ok
     /\ HasNotFound(client.tried[Len(client.tried)].message)
     /\ client.pc = "thrown")
        => client.error
            = Str(MsgNoModels(client.tried[Len(client.tried)].message))

----------------------------------------------------------------------------
(* streamContent of the editor handle *)

leadingNewlines_first(content) ==
    IF content # <<>> /\ Head(content) = "\n" THEN <<"\n">> ELSE <<>>

RECURSIVE leadingNewlines(_)
leadingNewlines(content) ==
    IF content # <<>> /\ Head(content) = "\n"
    THEN <<"\n">> \o leadingNewlines(Tail(content))
    ELSE <<>>

afterNewlines(content) ==
    SubSeq(content, Len(leadingNewlines(content)) + 1, Len(content))

textToStream_always(d, content) ==
    IF leadingNewlines(content) = <<>>
    THEN <<" ">> \o afterNewlines(content)
    ELSE afterNewlines(content)

textToStream_collapsing(d, content) ==
    IF /\ leadingNewlines(content) = <<>>
       /\ d # <<>>
       /\ ~IsSpace(d[Len(d)])
       /\ ~(content # <<>> /\ IsSpace(Head(content)))
    THEN <<" ">> \o afterNewlines(content)
    ELSE afterNewlines(content)

\* the text the loop reveals: a space is put in front when there is no leading
\* newline and the document ends in a character that is not whitespace
textToStream(d, content) ==
    IF /\ leadingNewlines(content) = <<>>
       /\ d # <<>>
       /\ ~IsSpace(d[Len(d)])
    THEN <<" ">> \o afterNewlines(content)
    ELSE afterNewlines(content)

\* streamContent up to its first await, on a live view: the document, the text
\* left to reveal and where the call stands ("done": onComplete was called)
streamBegin(d, content) ==
    LET nl == leadingNewlines(content)
        ts == textToStream(d, content)
    IN  IF nl # <<>>
        THEN [doc |-> d \o nl, rest |-> ts, pc |-> "pause", changed |-> TRUE]
        ELSE IF ts = <<>>
        THEN [doc |-> d, rest |-> <<>>, pc |-> "done", changed |-> FALSE]
        ELSE [doc |-> Append(d, Head(ts)), rest |-> Tail(ts), pc |-> "stream",
              changed |-> TRUE]

loopEnds_offByOne(c, v) == Len(c.rest) <= 1 \/ ~v

\* the loop's test at the top of an iteration: i < length, then the view
loopEnds(c, v) == c.rest = <<>> \/ ~v

----------------------------------------------------------------------------
(* The App *)

\* One call of handleContinueWriting.
\*   The locals attempt and rest are cleared when they go out of scope.
\*   pc: "request" (an attempt's generation call is outstanding), "backoff"
\*       (retryWithBackoff waits), "pause" / "stream" (streamContent waits
\*       after the newlines / after a character), "done"
\*   history: ended (the event that ended the cycle's loading period), sent
\*       (AI_RESPONSE and ERROR events sent), completed (calls of onComplete),
\*       written (characters the loop inserted), failure (the message thrown),
\*       cancelled (the view was destroyed with text left to reveal), after
\*       (characters inserted after that)
newCycle ==
    [pc |-> "request", attempt |-> 0, rest |-> <<>>, ended |-> "none",
     sent |-> 0, completed |-> 0, written |-> 0, failure |-> NULL,
     cancelled |-> FALSE, after |-> 0]

InFlight(c) == c.pc \in {"request", "backoff"}
Streaming(c) == c.pc \in {"pause", "stream"}

\* editorRef.current: the handle is attached while the editor is mounted
editorRefCurrent == view

canContinue_ignoresLoading(context) == Len(trim(context.content)) > 0

\* App, canContinue: the Continue Writing button is enabled
canContinue(context) ==
    Len(trim(context.content)) > 0 /\ ~context.isLoading

retryShown_statusOnly(context) ==
    /\ context.error # NULL
    /\ \/ Includes(context.error[1], "503")
       \/ Includes(context.error[1], "429")

\* App, the Retry button is rendered
retryShown(context) ==
    /\ context.error # NULL
    /\ \/ Includes(context.error[1], "overloaded")
       \/ Includes(context.error[1], "503")
       \/ Includes(context.error[1], "quota")
       \/ Includes(context.error[1], "429")

\* App, the Retry button is rendered and enabled
canRetry(context) == retryShown(context) /\ ~context.isLoading

\* a send moved the machine from loading to idle
Ends(m, after) == m.value = "loading" /\ after.value = "idle"

sendAI_RESPONSE_afterStreaming(m, text) == m

\* handleContinueWriting, the send between continueWriting and streamContent
sendAI_RESPONSE(m, text) == editorMachine(m, EvAI_RESPONSE(text))


Init ==
    /\ machine = initialMachine
    /\ last = Sent(initialMachine, NoEvent)
    /\ apiKey \in BOOLEAN
    /\ view = TRUE
    /\ doc = <<>>
    /\ timer = NULL
    /\ isStreaming = FALSE
    /\ cycles = <<>>
    /\ retry = noCall
    /\ client = noCall
    /\ stream = noCall
    /\ toolbar = noCall
    /\ editor = noCall

\* dispatchTransaction and handleChange: the view takes the new document and
\* the debounce timer is set anew with its text
Dispatch(d) ==
    /\ doc' = d
    /\ timer' = Str(d)

\* The user types a character at the end of the document (the only edit of
\* the user that is modelled).
UserTypes ==
    /\ view
    /\ Len(doc) < MaxDoc
    /\ \E ch \in {"a", " "} : Dispatch(Append(doc, ch))
    /\ UNCHANGED <<machine, last, apiKey, retry, client, stream, toolbar, editor, view, isStreaming, cycles>>

\* The debounce timer fires: onChange, handleContentChange.
DebounceFires ==
    /\ timer # NULL
    /\ machine' = editorMachine(machine, EvCONTENT_UPDATED(timer[1]))
    /\ last' = Sent(machine, EvCONTENT_UPDATED(timer[1]))
    /\ timer' = NULL
    /\ UNCHANGED <<apiKey, retry, client, stream, toolbar, editor, view, doc, isStreaming, cycles>>

\* handleContinueWriting up to its first suspension.  Without a credential
\* continueWriting rejects at once and the catch block runs before any other
\* task.
handleContinueWriting ==
    LET textContent == machine.context.content
        m1 == editorMachine(machine, EvCONTINUE_WRITING)
    IN  IF trim(textContent) = <<>>
        THEN UNCHANGED vars
        ELSE IF ~apiKey
        THEN /\ machine' = editorMachine(m1, EvERROR(MsgNoKey))
             /\ last' = Sent(m1, EvERROR(MsgNoKey))
             /\ isStreaming' = FALSE
             /\ cycles' = Append(cycles,
                    [newCycle EXCEPT
                        !.pc = "done",
                        !.sent = 1,
                        !.failure = Str(MsgNoKey),
                        !.ended =
                            IF Ends(m1, editorMachine(m1, EvERROR(MsgNoKey)))
                            THEN "ERROR" ELSE "none"])
             /\ UNCHANGED <<apiKey, retry, client, stream, toolbar, editor, view, doc, timer>>
        ELSE /\ machine' = m1
             /\ last' = Sent(machine, EvCONTINUE_WRITING)
             /\ cycles' = Append(cycles, newCycle)
             /\ UNCHANGED <<apiKey, retry, client, stream, toolbar, editor, view, doc, timer, isStreaming>>

\* A click on the Continue Writing button, which is disabled unless canContinue.
ClickContinue ==
    /\ view
    /\ Len(cycles) < MaxCycles
    /\ canContinue(machine.context)
    /\ handleContinueWriting

\* A click on the Retry button.
ClickRetry ==
    /\ view
    /\ Len(cycles) < MaxCycles
    /\ canRetry(machine.context)
    /\ handleContinueWriting

\* The attempt's generation succeeds: AI_RESPONSE, then streamContent up to
\* its first await.
AttemptSucceeds(i, text) ==
    LET event == EvAI_RESPONSE(text)
        m1 == sendAI_RESPONSE(machine, text)
        c == [cycles[i] EXCEPT
                !.attempt = 0,
                !.sent = @ + 1,
                !.ended = IF Ends(machine, m1) THEN "AI_RESPONSE" ELSE @]
        b == streamBegin(doc, <<"\n", "\n">> \o text)
    IN  /\ machine' = m1
        /\ last' = Sent(machine, event)
        /\ IF ~editorRefCurrent
           THEN /\ cycles' = [cycles EXCEPT ![i] = [c EXCEPT !.pc = "done"]]
                /\ UNCHANGED <<doc, timer, isStreaming>>
           ELSE IF ~view
           THEN /\ cycles' = [cycles EXCEPT ![i] = [c EXCEPT !.pc = "done"]]
                /\ isStreaming' = TRUE
                /\ UNCHANGED <<doc, timer>>
           ELSE /\ cycles' = [cycles EXCEPT ![i] =
                        [c EXCEPT
                            !.pc = b.pc,
                            !.rest = b.rest,
                            !.written = Len(b.doc) - Len(doc),
                            !.completed = IF b.pc = "done" THEN @ + 1 ELSE @]]
                /\ isStreaming' = (b.pc # "done")
                /\ doc' = b.doc
                /\ timer' = IF b.changed THEN Str(b.doc) ELSE timer
        /\ UNCHANGED <<apiKey, retry, client, stream, toolbar, editor, view>>

\* The attempt fails: retryWithBackoff waits, or throws and the catch block of
\* handleContinueWriting sends ERROR.
AttemptFails(i, message) ==
    IF throws(message, cycles[i].attempt)
    THEN /\ machine' = editorMachine(machine, EvERROR(message))
         /\ last' = Sent(machine, EvERROR(message))
         /\ isStreaming' = FALSE
         /\ cycles' = [cycles EXCEPT ![i] =
                [@ EXCEPT
                    !.pc = "done",
                    !.attempt = 0,
                    !.sent = @ + 1,
                    !.failure = Str(message),
                    !.ended =
                        IF Ends(machine, editorMachine(machine, EvERROR(message)))
                        THEN "ERROR" ELSE @]]
         /\ UNCHANGED <<apiKey, retry, client, stream, toolbar, editor, view, doc, timer>>
    ELSE /\ cycles' = [cycles EXCEPT ![i] = [@ EXCEPT !.pc = "backoff"]]
         /\ UNCHANGED <<machine, last, apiKey, retry, client, stream, toolbar, editor, view, doc, timer, isStreaming>>

\* The outstanding generation call of an attempt returns or fails.
AttemptReturns ==
    \E i \in 1..Len(cycles) :
        /\ cycles[i].pc = "request"
        /\ \/ \E text \in Continuations : AttemptSucceeds(i, text)
           \/ \E message \in AttemptErrors : AttemptFails(i, message)

\* The backoff delay of retryWithBackoff elapses: the next attempt starts.
BackoffElapses ==
    \E i \in 1..Len(cycles) :
        /\ cycles[i].pc = "backoff"
        /\ cycles' = [cycles EXCEPT ![i] =
                [@ EXCEPT !.pc = "request", !.attempt = @ + 1]]
        /\ UNCHANGED <<machine, last, apiKey, retry, client, stream, toolbar, editor, view, doc, timer, isStreaming>>

\* The delay of streamContent elapses: the loop ends (or breaks, the view being
\* gone) and onComplete is called, or the next character is inserted.
StreamStep ==
    \E i \in 1..Len(cycles) :
        /\ Streaming(cycles[i])
        /\ IF loopEnds(cycles[i], view)
           THEN /\ cycles' = [cycles EXCEPT ![i] =
                        [@ EXCEPT !.pc = "done", !.rest = <<>>,
                                  !.completed = @ + 1]]
                /\ isStreaming' = FALSE
                /\ UNCHANGED <<doc, timer>>
           ELSE /\ cycles' = [cycles EXCEPT ![i] =
                        [@ EXCEPT
                            !.pc = "stream",
                            !.rest = Tail(@),
                            !.written = @ + 1,
                            !.after = IF cycles[i].cancelled THEN @ + 1 ELSE @]]
                /\ Dispatch(Append(doc, Head(cycles[i].rest)))
                /\ UNCHANGED isStreaming
        /\ UNCHANGED <<machine, last, apiKey, retry, client, stream, toolbar, editor, view>>

\* The editor is unmounted: the cleanup of the effect that created the view.
\* Calls of handleContinueWriting that are suspended go on afterwards, and
\* the actor is taken to process what they send.
Unmount ==
    /\ view
    /\ view' = FALSE
    /\ timer' = NULL
    /\ cycles' = [i \in 1..Len(cycles) |->
            [cycles[i] EXCEPT
                !.cancelled = Streaming(cycles[i]) /\ cycles[i].rest # <<>>]]
    /\ UNCHANGED <<machine, last, apiKey, retry, client, stream, toolbar, editor, doc, isStreaming>>

Next ==
    \/ UserTypes
    \/ DebounceFires
    \/ ClickContinue
    \/ ClickRetry
    \/ AttemptReturns
    \/ BackoffElapses
    \/ StreamStep
    \/ Unmount

Spec == Init /\ [][Next]_vars

FairSpec ==
    /\ Spec
    /\ WF_vars(AttemptReturns)
    /\ WF_vars(BackoffElapses)

----------------------------------------------------------------------------
(* Properties of the App, under Spec and FairSpec *)

CyclesInFlight == {i \in 1..Len(cycles) : InFlight(cycles[i])}

\* C1: at most one continueWriting call is outstanding at any time, and while
\* one is, the machine is loading and both triggers (the Continue Writing and
\* the Retry button) are disabled, so that no second call can start.
C1_OneCallInFlight ==
    /\ Cardinality(CyclesInFlight) <= 1
    /\ CyclesInFlight # {}
            => /\ machine.value = "loading"
               /\ ~canContinue(machine.context)
               /\ ~canRetry(machine.context)

\* A call is outstanding (it waits to retry) with content that would pass the
\* guard and another click still possible within the bounds.
C1_Witness ==
    /\ \E i \in 1..Len(cycles) : cycles[i].pc = "backoff"
    /\ Len(trim(machine.context.content)) > 0
    /\ view
    /\ Len(cycles) < MaxCycles

\* C3: when the view is destroyed while streamContent has text left to
\* reveal, no further character is inserted and onComplete is not called.
C3_CancelledStreamIsSilent ==
    \A i \in 1..Len(cycles) :
        cycles[i].cancelled
            => cycles[i].after = 0 /\ cycles[i].completed = 0

\* C4: while the streamed text has not been written yet, the machine has not
\* left the loading period of that cycle.
C4_StreamBeforeIdle ==
    \A i \in 1..Len(cycles) :
        (Streaming(cycles[i]) /\ cycles[i].rest # <<>>)
            => cycles[i].ended = "none"

\* C4, amended: the AI client returns, then AI_RESPONSE takes the machine to
\* idle with the appended content, then streamContent writes: nothing is sent
\* or written while the call is outstanding, and whatever was written or
\* completed by streamContent came after the AI_RESPONSE that ended the
\* cycle's loading period.
C4_IdleBeforeStream ==
    /\ \A i \in 1..Len(cycles) :
        /\ InFlight(cycles[i])
                => /\ cycles[i].ended = "none"
                   /\ cycles[i].sent = 0
                   /\ cycles[i].written = 0
        /\ (\/ Streaming(cycles[i])
            \/ cycles[i].written > 0
            \/ cycles[i].completed > 0)
                => cycles[i].ended = "AI_RESPONSE"
    /\ last.event.type = "AI_RESPONSE"
            => /\ machine.value = "idle"
               /\ machine.context.content =
                    last.before.context.content \o <<" ">> \o last.event.content

\* The first character of a continuation is in the document, the rest is not
\* yet, and the machine is idle.
C4_Witness ==
    \E i \in 1..Len(cycles) :
        /\ cycles[i].pc = "stream"
        /\ cycles[i].rest # <<>>
        /\ cycles[i].written > 2
        /\ cycles[i].ended = "AI_RESPONSE"
        /\ machine.value = "idle"

C5_Safety ==
    /\ \A i \in 1..Len(cycles) :
        /\ cycles[i].attempt < maxRetries
        /\ cycles[i].sent <= 1
        /\ InFlight(cycles[i])
                => cycles[i].sent = 0 /\ cycles[i].ended = "none"
        /\ ~InFlight(cycles[i])
                => /\ cycles[i].sent = 1
                   /\ cycles[i].ended \in {"AI_RESPONSE", "ERROR"}
        /\ cycles[i].ended = "ERROR" <=> cycles[i].failure # NULL
    /\ last.event.type = "ERROR"
            => /\ machine.value = "idle"
               /\ machine.context.error = Str(last.event.error)
               /\ \E i \in 1..Len(cycles) :
                    cycles[i].failure = Str(last.event.error)

\* C5: every loading period ends (the generation calls returning and the
\* backoff delays elapsing): the machine comes back to idle, each cycle
\* sends exactly one AI_RESPONSE or ERROR, which ends its loading period,
\* within maxRetries attempts, and after ERROR context.error is the message
\* of the failure.
C5_LoadingEnds ==
    /\ (machine.value = "loading") ~> (machine.value = "idle")
    /\ []C5_Safety

\* A cycle failed with a retryable error on its last attempt and the machine
\* is idle with that message.
C5_Witness ==
    \E i \in 1..Len(cycles) :
        /\ cycles[i].ended = "ERROR"
        /\ isRetryable(cycles[i].failure[1])
        /\ machine.value = "idle"
        /\ machine.context.error = cycles[i].failure


----------------------------------------------------------------------------
(* Properties of continueWriting's error handling, under ClientSpec *)

AuthSignatures == {"API_KEY", "401"}
QuotaSignatures == {"quota", "429"}
OverloadSignatures == {"503", "overloaded"}
TransportSignatures == {"network", "ECONNRESET", "ETIMEDOUT"}

Has(message, signatures) == Words(message) \cap signatures # {}

\* C21: what a failed attempt throws to its caller is one of the five
\* categories, the first in the order authentication, quota, service
\* unavailable, model unavailable whose signature the failure's message has,
\* and otherwise the generic error with the failure's message; it is what
\* continueWriting throws when the call ends there.
C21_Categories ==
    /\ Len(client.failures) = Len(client.raised)
    /\ \A k \in 1..Len(client.raised) :
        LET message == client.raised[k]
            mapped == client.failures[k]
        IN  /\ Has(message, AuthSignatures) => mapped = MsgInvalidKey
            /\ (~Has(message, AuthSignatures) /\ Has(message, QuotaSignatures))
                    => mapped = MsgQuota
            /\ (/\ ~Has(message, AuthSignatures)
                /\ ~Has(message, QuotaSignatures)
                /\ Has(message, OverloadSignatures))
                    => mapped = MsgOverloaded
            /\ (/\ ~Has(message, AuthSignatures)
                /\ ~Has(message, QuotaSignatures)
                /\ ~Has(message, OverloadSignatures)
                /\ Has(message, NotFoundSignatures))
                    => mapped = MsgModelUnavailable
            /\ (/\ ~Has(message, AuthSignatures)
                /\ ~Has(message, QuotaSignatures)
                /\ ~Has(message, OverloadSignatures)
                /\ ~Has(message, NotFoundSignatures))
                    => mapped = <<"Failed", "to", "generate", "paragraph:">>
                                    \o message
    /\ (client.pc = "thrown" /\ client.raised # <<>>)
            => client.error = Str(client.failures[Len(client.failures)])

\* A failure with a quota and a credential signature is an authentication
\* error; before it, the aggregate error with a not-found and a quota
\* signature was a quota error.
C21_Witness ==
    /\ client.pc = "thrown"
    /\ client.raised = <<MsgNoModels(<<"404", "quota">>), <<"quota", "401">>>>
    /\ client.failures = <<MsgQuota, MsgInvalidKey>>
    /\ client.error = Str(MsgInvalidKey)

\* A failure without any signature is the generic error with its message.
C21_WitnessGeneric ==
    /\ client.pc = "thrown"
    /\ client.raised = <<<<"boom">>>>
    /\ client.error = Str(<<"Failed", "to", "generate", "paragraph:", "boom">>)

IsAuth(message) == Has(message, AuthSignatures)

IsGeneric(message) ==
    ~Has(message, AuthSignatures \cup QuotaSignatures \cup OverloadSignatures
                    \cup NotFoundSignatures)

\* C22 as stated: when the first attempt fails with a failure mapped to the
\* authentication error or to the generic error, continueWriting made exactly
\* one attempt and throws that error.
C22_NeverRetried ==
    (/\ client.raised # <<>>
     /\ IsAuth(client.raised[1]) \/ IsGeneric(client.raised[1]))
        => /\ client.pc = "thrown"
           /\ client.attempt = 0
           /\ Len(client.failures) = 1
           /\ client.waits = <<>>
           /\ client.error = Str(client.failures[1])

\* C22, amended: a failure mapped to the authentication error, or to the
\* generic error when its message has none of 'network', 'ECONNRESET',
\* 'ETIMEDOUT', is never retried: the call ends there with that error, and
\* after one attempt when it is the first failure; a generic error whose
\* message has one of these three is retried while attempts are left.
C22_FatalNotRetried ==
    LET n == Len(client.raised)
        Fatal(message) ==
            \/ IsAuth(message)
            \/ IsGeneric(message) /\ ~Has(message, TransportSignatures)
    IN  /\ (n > 0 /\ Fatal(client.raised[n]))
            => /\ client.pc = "thrown"
               /\ client.attempt = n - 1
               /\ Len(client.waits) = n - 1
               /\ client.error = Str(client.failures[n])
        /\ (n > 0 /\ Fatal(client.raised[1]))
            => n = 1 /\ client.attempt = 0 /\ client.waits = <<>>
        /\ (/\ n > 0
            /\ n < maxRetries
            /\ IsGeneric(client.raised[n])
            /\ Has(client.raised[n], TransportSignatures))
                => /\ client.pc # "thrown"
                   /\ Len(client.waits) = n
                   /\ client.error = NULL

\* The credential is rejected by the first model: one generation call.
C22_Witness ==
    /\ client.pc = "thrown"
    /\ client.raised = <<<<"401">>>>
    /\ client.calls = <<Call(0, 1)>>
    /\ client.waits = <<>>
    /\ client.error = Str(MsgInvalidKey)

\* A network failure is retried, then a failure without signature ends the call.
C22_WitnessTransport ==
    /\ client.pc = "thrown"
    /\ client.raised = <<<<"network">>, <<"boom">>>>
    /\ client.waits = <<1000>>
    /\ client.error = Str(MsgGeneric(<<"boom">>))

IsTransient(message) ==
    ~Has(message, AuthSignatures)
        /\ Has(message, QuotaSignatures \cup OverloadSignatures)

\* C23: a failure mapped to the service-unavailable or the quota error is
\* retried while fewer than 3 attempts have failed; no call makes more than 3
\* attempts; when the third attempt fails so, that error is thrown, and the
\* App offers Retry for it.
C23_TransientRetried ==
    LET n == Len(client.raised)
    IN  /\ n <= 3
        /\ client.attempt < 3
        /\ (n > 0 /\ IsTransient(client.raised[n]))
            => /\ client.failures[n] \in {MsgOverloaded, MsgQuota}
               /\ n < 3
                    => /\ client.pc # "thrown"
                       /\ Len(client.waits) = n
                       /\ client.error = NULL
               /\ n = 3
                    => /\ client.pc = "thrown"
                       /\ client.error = Str(client.failures[n])
                       /\ Len(client.waits) = 2
                       /\ retryShown([error |-> client.error])

\* Overloaded, quota, overloaded: thrown after waits of 1000 and 2000.
C23_Witness ==
    /\ client.pc = "thrown"
    /\ client.raised = <<<<"503">>, MsgNoModels(<<"404", "quota">>), <<"503">>>>
    /\ client.waits = <<1000, 2000>>
    /\ client.error = Str(MsgOverloaded)
    /\ retryShown([error |-> client.error])

\* C24: what continueWriting returns is not empty and is trimmed; when
\* response.text() gives no text (it throws, or returns white space only) and
\* the candidate's parts give none either (there are none, or they are white
\* space only), the attempt fails with the empty-response error.
C24_NonEmptyContinuation ==
    LET n == Len(client.tried)
        r == client.tried[n].response
        NoText(t) == \A k \in 1..Len(t) : IsSpace(t[k])
    IN  /\ client.pc = "returned"
            => /\ client.value # NULL
               /\ client.value[1] # <<>>
               /\ ~IsSpace(client.value[1][1])
               /\ ~IsSpace(client.value[1][Len(client.value[1])])
        /\ (/\ n > 0
            /\ client.tried[n].ok
            /\ r.textThrows \/ NoText(r.text)
            /\ ~r.hasParts \/ NoText(r.parts))
                => /\ client.pc \in {"thrown", "wait"}
                   /\ client.value = NULL
                   /\ client.raised # <<>>
                   /\ client.raised[Len(client.raised)] = MsgEmpty
                   /\ client.pc = "thrown"
                        => client.error = Str(MsgGeneric(MsgEmpty))

\* response.text() returns ' b': the continuation is 'b'.
C24_Witness ==
    /\ client.pc = "returned"
    /\ client.tried = <<Resolved(Response(FALSE, <<" ", "b">>, FALSE, <<>>))>>
    /\ client.value = Str(<<"b">>)

\* response.text() returns ' ' and the parts are a newline: nothing to return.
C24_WitnessEmpty ==
    /\ client.pc = "thrown"
    /\ client.tried = <<Resolved(Response(FALSE, <<" ">>, TRUE, <<"\n">>))>>
    /\ client.error = Str(MsgGeneric(MsgEmpty))

----------------------------------------------------------------------------
(* StreamSpec: streamContent(content, onComplete) of the editor handle,     *)
(* called on a document and once more when it has ended, with nothing else *)
(* editing the document                                                    *)

MaxStream == 3      \* longest content streamed

StreamChars == {"w", " ", "\n", ".", "1"}
StreamContents == SeqsUpTo(StreamChars, MaxStream)

\* doc.textContent when streamContent is called first
StreamDocs == {<<>>, <<"H", "i">>, <<"H", " ">>, <<"H", "\n">>}

Punctuation == {".", ",", "!", "?", ";", ":"}
Letters == {"H", "i", "w", "a", "b", "c"}

delayFor_noWhitespace(char) ==
    IF char \in Punctuation THEN 60
    ELSE IF char \in Letters THEN 40
    ELSE 30

\* streamContent: the delay after a character
delayFor(char) ==
    IF IsSpace(char) THEN 15
    ELSE IF char \in Punctuation THEN 60
    ELSE IF char \in Letters THEN 40
    ELSE 30

\* the steps of a call, as the log keeps them
Inserted(text, at) == [kind |-> "insert", text |-> text, at |-> at, ms |-> 0]
Waited(ms) == [kind |-> "wait", text |-> <<>>, at |-> 0, ms |-> ms]

\* The handle before the first call.
\*   pc: "ready" (no call is running), "pause" (the pause after the newlines
\*       is awaited), "stream" (the delay after a character is awaited)
\*   content, callback: the arguments of the calls (callback: onComplete is
\*       given); rest: textToStream.slice(i)
\*   history: calls (calls made), origin / before (the document at the first /
\*       at this call), log (the steps of this call), completed (calls of
\*       onComplete by this call), ended (how this call ended)
newStream(content, callback, d) ==
    [pc |-> "ready", content |-> content, callback |-> callback,
     rest |-> <<>>, calls |-> 0, origin |-> d, before |-> d, log |-> <<>>,
     completed |-> 0, ended |-> "no"]

StreamInit ==
    /\ machine = initialMachine
    /\ last = Sent(initialMachine, NoEvent)
    /\ apiKey = TRUE
    /\ view = TRUE
    /\ doc \in StreamDocs
    /\ timer = NULL
    /\ isStreaming = FALSE
    /\ cycles = <<>>
    /\ retry = noCall
    /\ client = noCall
    /\ toolbar = noCall
    /\ editor = noCall
    /\ stream \in {newStream(content, callback, doc) :
                        content \in StreamContents, callback \in BOOLEAN}

streamFrame == <<machine, last, apiKey, isStreaming, cycles, retry, client,
                 toolbar, editor>>

\* The call is over: onComplete, when there is one.
finish(s, how) ==
    [s EXCEPT
        !.pc = "ready",
        !.ended = how,
        !.completed = IF s.callback THEN @ + 1 ELSE @]

\* The top of a loop iteration: the loop ends, or breaks for want of a view, or
\* inserts the next character at the end and starts its delay.
Iterate(s) ==
    IF loopEnds(s, view)
    THEN /\ stream' = finish(s, IF s.rest = <<>> THEN "complete" ELSE "break")
         /\ UNCHANGED <<doc, timer>>
    ELSE /\ stream' = [s EXCEPT
                !.pc = "stream",
                !.rest = Tail(@),
                !.log = @ \o <<Inserted(<<Head(s.rest)>>, Len(doc)),
                               Waited(delayFor(Head(s.rest)))>>]
         /\ Dispatch(doc \o <<Head(s.rest)>>)

\* streamContent is called: nothing without a view; else the newlines are
\* inserted and the pause starts, or the loop starts at once.
StreamContentCalled ==
    /\ stream.pc = "ready"
    /\ stream.calls \in {0, 1}
    /\ LET s == [stream EXCEPT
                    !.calls = @ + 1, !.before = doc, !.log = <<>>,
                    !.completed = 0, !.rest = <<>>, !.ended = "no"]
           nl == leadingNewlines(stream.content)
       IN  IF ~view
           THEN /\ stream' = [s EXCEPT !.ended = "early"]
                /\ UNCHANGED <<doc, timer>>
           ELSE IF nl # <<>>
           THEN /\ stream' = [s EXCEPT
                        !.pc = "pause",
                        !.rest = textToStream(doc, stream.content),
                        !.log = <<Inserted(nl, Len(doc)), Waited(30)>>]
                /\ Dispatch(doc \o nl)
           ELSE Iterate([s EXCEPT !.rest = textToStream(doc, stream.content)])
    /\ UNCHANGED <<view>>
    /\ UNCHANGED streamFrame

\* The pause after the newlines, or the delay after a character, elapses.
StreamTimerFires ==
    /\ stream.pc \in {"pause", "stream"}
    /\ Iterate(stream)
    /\ UNCHANGED <<view>>
    /\ UNCHANGED streamFrame

\* The editor is unmounted: the cleanup of the effect that created the view.
DestroyView ==
    /\ view
    /\ view' = FALSE
    /\ timer' = NULL
    /\ UNCHANGED <<doc, stream>>
    /\ UNCHANGED streamFrame

StreamNext ==
    \/ StreamContentCalled
    \/ StreamTimerFires
    \/ DestroyView

StreamSpec == StreamInit /\ [][StreamNext]_vars

----------------------------------------------------------------------------
(* Properties of streamContent, under StreamSpec *)

\* the number of newlines content starts with
LeadCount(content) ==
    CHOOSE n \in 0..Len(content) :
        /\ \A k \in 1..n : content[k] = "\n"
        /\ n = Len(content) \/ content[n + 1] # "\n"

\* the boundary check: no leading newline, and the document ends in a
\* character that is not white space
Boundary(d, content) ==
    /\ LeadCount(content) = 0
    /\ d # <<>>
    /\ d[Len(d)] \notin {" ", "\n", "\t"}

\* what a call that runs to its end appends to the document d
Appended(d, content) ==
    IF Boundary(d, content) THEN <<" ">> \o content ELSE content

\* C25: a call of streamContent calls onComplete at most once, never while it
\* still has a step to make and never without being given one; when the call
\* has ended and the view was never destroyed, onComplete has been called
\* exactly once, and every character is in the document by then.
C25_CompleteOnce ==
    /\ stream.completed <= 1
    /\ stream.pc # "ready" => stream.completed = 0
    /\ ~stream.callback => stream.completed = 0
    /\ (stream.pc = "ready" /\ stream.calls > 0 /\ view)
        => /\ stream.ended = "complete"
           /\ stream.completed = IF stream.callback THEN 1 ELSE 0
           /\ stream.rest = <<>>
           /\ doc = stream.before \o Appended(stream.before, stream.content)

\* A call with onComplete has revealed newline, 'w', '.' on a live view.
C25_Witness ==
    /\ view
    /\ stream.pc = "ready"
    /\ stream.calls = 1
    /\ stream.callback
    /\ stream.content = <<"\n", "w", ".">>
    /\ stream.completed = 1
    /\ doc = stream.before \o <<"\n", "w", ".">>

\* C26: a call that runs to its end has appended one space and the content
\* when the content has no leading newline and the document ended in a
\* character that is not white space, and the content alone otherwise (empty
\* document, white space at the end, leading newline); 'w' on an empty document
\* gives 'w'.
C26_BoundarySpace ==
    (stream.ended = "complete" /\ stream.pc = "ready")
        => LET d == stream.before
               content == stream.content
               injects == /\ (content = <<>> \/ content[1] # "\n")
                          /\ d # <<>>
                          /\ d[Len(d)] \notin {" ", "\n", "\t"}
           IN  /\ injects => doc = d \o <<" ">> \o content
               /\ ~injects => doc = d \o content
               /\ (d = <<>> /\ content = <<"w">>) => doc = <<"w">>

\* 'w' after 'Hi': one space is put in between.
C26_Witness ==
    /\ stream.ended = "complete"
    /\ stream.calls = 1
    /\ stream.before = <<"H", "i">>
    /\ stream.content = <<"w">>
    /\ doc = <<"H", "i", " ", "w">>

\* 'w' on the empty document: no space.
C26_WitnessEmptyDoc ==
    /\ stream.ended = "complete"
    /\ stream.calls = 1
    /\ stream.before = <<>>
    /\ stream.content = <<"w">>
    /\ doc = <<"w">>

\* C27 as stated: ' w' streamed after 'Hi' gives 'Hi w', the space of the
\* content and the boundary space being one.
C27_SpaceCollapsed ==
    (/\ stream.ended = "complete"
     /\ stream.calls = 1
     /\ stream.before = <<"H", "i">>
     /\ stream.content = <<" ", "w">>)
        => doc = <<"H", "i", " ", "w">>

\* C27, amended: ' w' streamed after 'Hi' gives 'Hi  w'; whenever the content
\* starts with a space and the boundary check adds one, both are inserted, one
\* after the other.
C27_SpaceDoubled ==
    (/\ stream.ended = "complete"
     /\ stream.pc = "ready"
     /\ stream.content # <<>>
     /\ stream.content[1] = " "
     /\ stream.before # <<>>
     /\ stream.before[Len(stream.before)] \notin {" ", "\n", "\t"})
        => /\ doc = stream.before \o <<" ", " ">> \o Tail(stream.content)
           /\ stream.log[1] = Inserted(<<" ">>, Len(stream.before))
           /\ stream.log[3] = Inserted(<<" ">>, Len(stream.before) + 1)
           /\ (stream.before = <<"H", "i">> /\ stream.content = <<" ", "w">>)
                => doc = <<"H", "i", " ", " ", "w">>

\* ' w' after 'Hi'.
C27_Witness ==
    /\ stream.ended = "complete"
    /\ stream.pc = "ready"
    /\ stream.calls = 1
    /\ stream.before = <<"H", "i">>
    /\ stream.content = <<" ", "w">>
    /\ doc = <<"H", "i", " ", " ", "w">>

\* the texts the steps of log inserted, one after the other
RECURSIVE InsertedText(_)
InsertedText(log) ==
    IF log = <<>> THEN <<>>
    ELSE (IF Head(log).kind = "insert" THEN Head(log).text ELSE <<>>)
            \o InsertedText(Tail(log))

\* C28: the steps of a call, in order: when the content starts with newlines,
\* all of them in one insertion at the end of the document and one pause of 30
\* (no such step otherwise); then, for each character of the rest (after the
\* boundary space, when there is one) in order, one insertion of that
\* character alone at the end of the document and one delay.  The document is
\* at any time the old one followed by what was inserted; after the last step
\* it is the old one, the newlines, the boundary space if any and the rest; a
\* second call appends the same again to what the first one left.
C28_Steps ==
    LET d == stream.before
        content == stream.content
        n == LeadCount(content)
        chars == (IF Boundary(d, content) THEN <<" ">> ELSE <<>>)
                    \o SubSeq(content, n + 1, Len(content))
        head == IF n > 0 THEN 2 ELSE 0
        log == stream.log
    IN  (stream.calls > 0 /\ stream.ended # "early")
        => /\ n > 0 => /\ Len(log) >= 2
                       /\ log[1] = Inserted([k \in 1..n |-> "\n"], Len(d))
                       /\ log[2] = Waited(30)
           /\ Len(log) <= head + 2 * Len(chars)
           /\ (Len(log) - head) % 2 = 0
           /\ \A k \in 1..((Len(log) - head) \div 2) :
                /\ log[head + 2 * k - 1]
                    = Inserted(<<chars[k]>>, Len(d) + n + k - 1)
                /\ log[head + 2 * k].kind = "wait"
           /\ doc = d \o InsertedText(log)
           /\ stream.ended = "complete"
                => /\ Len(log) = head + 2 * Len(chars)
                   /\ doc = d \o [k \in 1..n |-> "\n"] \o chars
           /\ (stream.calls = 2 /\ stream.ended = "complete")
                => /\ d = stream.origin \o Appended(stream.origin, content)
                   /\ doc = stream.origin \o Appended(stream.origin, content)
                                \o Appended(d, content)

\* Two newlines and 'w' after 'Hi': one insertion of both newlines, the pause,
\* then 'w'.
C28_Witness ==
    /\ stream.ended = "complete"
    /\ stream.calls = 1
    /\ stream.before = <<"H", "i">>
    /\ stream.content = <<"\n", "\n", "w">>
    /\ stream.log = <<Inserted(<<"\n", "\n">>, 2), Waited(30),
                      Inserted(<<"w">>, 4), Waited(40)>>
    /\ doc = <<"H", "i", "\n", "\n", "w">>

\* 'w.' twice on the empty document: 'w.' and then ' w.'.
C28_WitnessTwice ==
    /\ stream.ended = "complete"
    /\ stream.calls = 2
    /\ stream.origin = <<>>
    /\ stream.content = <<"w", ".">>
    /\ doc = <<"w", ".", " ", "w", ".">>

\* C29: the wait after the insertion of a character is 15 for white space, 60
\* for one of .,!?;: , 40 for a letter and 30 for anything else; every
\* inserted character is followed by exactly one such wait.
C29_Delays ==
    LET log == stream.log
        head == IF LeadCount(stream.content) > 0 THEN 2 ELSE 0
    IN  /\ stream.pc = "stream" => Len(log) > head
        /\ \A k \in (head + 1)..Len(log) :
            log[k].kind = "insert"
                => /\ Len(log[k].text) = 1
                   /\ k < Len(log)
                   /\ log[k + 1].kind = "wait"
                   /\ (k + 1 < Len(log) => log[k + 2].kind = "insert")
                   /\ LET char == log[k].text[1]
                          ms == log[k + 1].ms
                      IN  /\ char \in {" ", "\n", "\t"} => ms = 15
                          /\ char \in {".", ",", "!", "?", ";", ":"} => ms = 60
                          /\ char \in {"H", "i", "w"} => ms = 40
                          /\ char \in {"1"} => ms = 30
                          /\ ms \in {15, 60, 40, 30}

\* A letter, a full stop and a digit after 'H ': 40, 60, 30.
C29_Witness ==
    /\ stream.ended = "complete"
    /\ stream.calls = 1
    /\ stream.before = <<"H", " ">>
    /\ stream.log = <<Inserted(<<"w">>, 2), Waited(40),
                      Inserted(<<".">>, 3), Waited(60),
                      Inserted(<<"1">>, 4), Waited(30)>>

\* The boundary space and a newline inside the content: 15 each.
C29_WitnessSpace ==
    /\ stream.ended = "complete"
    /\ stream.calls = 1
    /\ stream.before = <<"H", "i">>
    /\ stream.log = <<Inserted(<<" ">>, 2), Waited(15),
                      Inserted(<<"w">>, 3), Waited(40),
                      Inserted(<<"\n">>, 4), Waited(15)>>

----------------------------------------------------------------------------
(* ToolbarSpec: the FormattingToolbar over an editor state of one paragraph *)
(* (FormattingToolbar.tsx).  A character of the paragraph carries a set of  *)
(* marks; a text node is a longest run of characters with the same marks.   *)
(* Only the marks strong and fontSize are followed; em and underline are    *)
(* handled by the same code as strong.                                      *)

MaxText == 3        \* longest paragraph, in characters

Strong == [type |-> "strong", size |-> ""]
FontSize(size) == [type |-> "fontSize", size |-> size]

DefaultSize == "16px"
Sizes == {"20px", "24px"}

\* the marks of a character when the toolbar is mounted
InitialMarks == {{}, {Strong}, {FontSize("20px")}, {Strong, FontSize("24px")}}

Types(marks) == {m.type : m \in marks}

\* Mark.removeFromSet for every mark of a type, Mark.addToSet
WithoutType(marks, type) == {m \in marks : m.type # type}
WithMark(marks, mark) == WithoutType(marks, mark.type) \cup {mark}

\* ResolvedPos.marks() at offset pos of the paragraph: the marks of the node
\* before pos, of the first node at the start (all marks are inclusive)
marksAt(chars, pos) ==
    IF chars = <<>> THEN {}
    ELSE IF pos > 0 THEN chars[pos]
    ELSE chars[1]

\* doc.nodesBetween(from, to, f): the marks of the nodes f is called with, in
\* order: the paragraph, which has none, then the text between from and to
nodesBetween(chars, from, to) ==
    <<{}>> \o [k \in 1..(to - from) |-> chars[from + k]]

\* mark.attrs.size || '16px'
sizeOf(mark) == IF mark.size = "" THEN DefaultSize ELSE mark.size

updateToolbar_cursorFirst(t) ==
    LET cursor == marksAt(t.chars, t.from)
        marks == IF cursor # {} \/ t.storedMarks = NULL
                 THEN cursor ELSE t.storedMarks[1]
    IN  [t EXCEPT
            !.activeMarks = Types(marks),
            !.fontSize = IF "fontSize" \in Types(marks)
                         THEN sizeOf(CHOOSE m \in marks : m.type = "fontSize")
                         ELSE DefaultSize,
            !.fresh = TRUE]

\* A variant that shows a mark of the selection's start as soon as some node of
\* the range has it (union), and ignores the nodes that have none.
updateToolbar_union(t) ==
    IF t.from = t.to
    THEN LET storedMarks == IF t.storedMarks # NULL THEN t.storedMarks[1]
                            ELSE marksAt(t.chars, t.from)
         IN  [t EXCEPT !.activeMarks = Types(storedMarks),
                !.fontSize = IF "fontSize" \in Types(storedMarks)
                    THEN sizeOf(CHOOSE m \in storedMarks : m.type = "fontSize")
                    ELSE DefaultSize,
                !.fresh = TRUE]
    ELSE LET marksAtStart == marksAt(t.chars, t.from)
             nodes == nodesBetween(t.chars, t.from, t.to)
             sized == {k \in 1..Len(nodes) : "fontSize" \in Types(nodes[k])}
             first == CHOOSE k \in sized : \A j \in sized : k <= j
         IN  [t EXCEPT
                !.activeMarks = {mark.type : mark \in {m \in marksAtStart :
                    \E k \in 1..Len(nodes) : m.type \in Types(nodes[k])}},
                !.fontSize = IF "fontSize" \in Types(marksAtStart) /\ sized # {}
                    THEN sizeOf(CHOOSE m \in nodes[first] : m.type = "fontSize")
                    ELSE DefaultSize,
                !.fresh = TRUE]

\* updateToolbar: activeMarks and fontSize from the editor state
updateToolbar(t) ==
    IF t.from = t.to
    THEN LET storedMarks == IF t.storedMarks # NULL THEN t.storedMarks[1]
                            ELSE marksAt(t.chars, t.from)
         IN  [t EXCEPT
                !.activeMarks = Types(storedMarks),
                !.fontSize =
                    IF "fontSize" \in Types(storedMarks)
                    THEN sizeOf(CHOOSE m \in storedMarks : m.type = "fontSize")
                    ELSE DefaultSize,
                !.fresh = TRUE]
    ELSE LET marksAtStart == marksAt(t.chars, t.from)
             nodes == nodesBetween(t.chars, t.from, t.to)
             nodeHasMark(k, type) == type \in Types(nodes[k])
             markExistsEverywhere(mark) ==
                \A k \in 1..Len(nodes) : nodeHasMark(k, mark.type)
             sized == {k \in 1..Len(nodes) : nodeHasMark(k, "fontSize")}
             first == CHOOSE k \in sized : \A j \in sized : k <= j
         IN  [t EXCEPT
                !.activeMarks =
                    {mark.type : mark \in
                        {m \in marksAtStart : markExistsEverywhere(m)}},
                !.fontSize =
                    IF "fontSize" \in Types(marksAtStart) /\ sized # {}
                    THEN sizeOf(CHOOSE m \in nodes[first] : m.type = "fontSize")
                    ELSE DefaultSize,
                !.fresh = TRUE]

\* The toolbar's component state before its first update, over an editor state
\* with the cursor at the start.
\*   chars: the marks of each character; from, to: the selection;
\*   storedMarks: state.storedMarks (null, or a set of marks)
\*   activeMarks, fontSize: the component's state; fresh: updateToolbar has run
\*       since the editor state changed last
newToolbar(chars) ==
    [chars |-> chars, from |-> 0, to |-> 0, storedMarks |-> NULL,
     activeMarks |-> {}, fontSize |-> DefaultSize, fresh |-> FALSE]

ToolbarInit ==
    /\ machine = initialMachine
    /\ last = Sent(initialMachine, NoEvent)
    /\ apiKey = TRUE
    /\ view = TRUE
    /\ doc = <<>>
    /\ timer = NULL
    /\ isStreaming = FALSE
    /\ cycles = <<>>
    /\ retry = noCall
    /\ client = noCall
    /\ stream = noCall
    /\ editor = noCall
    /\ toolbar \in {newToolbar(chars) : chars \in SeqsUpTo(InitialMarks, MaxText)}

toolbarFrame == <<machine, last, apiKey, view, doc, timer, isStreaming, cycles,
                  retry, client, stream, editor>>

\* The toolbar hears of a change (mount, prosemirror-update, selectionchange).
UpdateToolbar ==
    /\ ~toolbar.fresh
    /\ toolbar' = updateToolbar(toolbar)
    /\ UNCHANGED toolbarFrame

\* The user puts the cursor somewhere or selects a range: the stored marks are
\* dropped.
SelectionSet ==
    /\ \E from \in 0..Len(toolbar.chars), to \in 0..Len(toolbar.chars) :
        /\ from <= to
        /\ <<from, to>> # <<toolbar.from, toolbar.to>>
        /\ toolbar' = [toolbar EXCEPT
                        !.from = from, !.to = to, !.storedMarks = NULL,
                        !.fresh = FALSE]
    /\ UNCHANGED toolbarFrame

\* toggleBold, toggleMark(strong): at a cursor the stored marks change; over a
\* range the mark is removed when some of it has it, and added otherwise.
toggleBold ==
    /\ IF toolbar.from = toolbar.to
       THEN LET base == IF toolbar.storedMarks # NULL
                        THEN toolbar.storedMarks[1]
                        ELSE marksAt(toolbar.chars, toolbar.from)
            IN  toolbar' = [toolbar EXCEPT
                    !.storedMarks =
                        IF "strong" \in Types(base)
                        THEN Str(WithoutType(base, "strong"))
                        ELSE Str(WithMark(base, Strong)),
                    !.fresh = FALSE]
       ELSE LET range == (toolbar.from + 1)..toolbar.to
                has == \E k \in range : "strong" \in Types(toolbar.chars[k])
            IN  toolbar' = [toolbar EXCEPT
                    !.chars = [k \in 1..Len(toolbar.chars) |->
                        IF k \notin range THEN toolbar.chars[k]
                        ELSE IF has THEN WithoutType(toolbar.chars[k], "strong")
                        ELSE WithMark(toolbar.chars[k], Strong)],
                    !.storedMarks = NULL,
                    !.fresh = FALSE]
    /\ UNCHANGED toolbarFrame

\* changeFontSize(size): over a range the fontSize mark is replaced; at a
\* cursor it is stored for the next typed text.
changeFontSize ==
    /\ \E size \in Sizes :
        IF toolbar.from # toolbar.to
        THEN LET range == (toolbar.from + 1)..toolbar.to
             IN  toolbar' = [toolbar EXCEPT
                    !.chars = [k \in 1..Len(toolbar.chars) |->
                        IF k \in range
                        THEN WithMark(toolbar.chars[k], FontSize(size))
                        ELSE toolbar.chars[k]],
                    !.storedMarks = NULL,
                    !.fresh = FALSE]
        ELSE LET base == IF toolbar.storedMarks # NULL
                         THEN toolbar.storedMarks[1]
                         ELSE marksAt(toolbar.chars, toolbar.from)
             IN  toolbar' = [toolbar EXCEPT
                    !.storedMarks = Str(WithMark(base, FontSize(size))),
                    !.fresh = FALSE]
    /\ UNCHANGED toolbarFrame

ToolbarNext ==
    \/ UpdateToolbar
    \/ SelectionSet
    \/ toggleBold
    \/ changeFontSize

ToolbarSpec == ToolbarInit /\ [][ToolbarNext]_vars

\* C30: after an update at a collapsed selection the active set is the set of
\* the types of the stored marks when there are stored marks (an empty set of
\* them included), whatever the marks at the cursor are, and the types of the
\* marks at the cursor when there are none; a cursor whose only bold mark is a
\* stored one shows bold.
C30_CollapsedSelection ==
    (toolbar.fresh /\ toolbar.from = toolbar.to)
        => LET atCursor ==
                IF toolbar.chars = <<>> THEN {}
                ELSE toolbar.chars[IF toolbar.from = 0 THEN 1 ELSE toolbar.from]
           IN  /\ toolbar.storedMarks # NULL
                    => toolbar.activeMarks
                        = {m.type : m \in toolbar.storedMarks[1]}
               /\ toolbar.storedMarks = NULL
                    => toolbar.activeMarks = {m.type : m \in atCursor}
               /\ (/\ toolbar.storedMarks # NULL
                   /\ Strong \in toolbar.storedMarks[1]
                   /\ Strong \notin atCursor)
                    => "strong" \in toolbar.activeMarks

\* Bold is pending at a cursor in text that is not bold.
C30_Witness ==
    /\ toolbar.fresh
    /\ toolbar.from = toolbar.to
    /\ toolbar.chars # <<>>
    /\ Strong \notin marksAt(toolbar.chars, toolbar.from)
    /\ toolbar.storedMarks = Str({Strong})
    /\ "strong" \in toolbar.activeMarks

\* Bold was switched off at a cursor in bold text: the stored marks are empty
\* and win over the cursor's.
C30_WitnessStoredEmpty ==
    /\ toolbar.fresh
    /\ toolbar.from = toolbar.to
    /\ toolbar.chars # <<>>
    /\ marksAt(toolbar.chars, toolbar.from) = {Strong}
    /\ toolbar.storedMarks = Str({})
    /\ toolbar.activeMarks = {}

\* The text inside a range selection [from, to): its characters from + 1 .. to.
Selected(t) == (t.from + 1)..t.to

\* C31: after an update at a range selection a mark type is in the active set
\* only if every character of the range carries a mark of that type; a range
\* of two characters of which only the first is bold does not show bold.
C31_RangeIntersection ==
    (toolbar.fresh /\ toolbar.from < toolbar.to)
        => /\ \A type \in toolbar.activeMarks :
                \A k \in Selected(toolbar) : type \in Types(toolbar.chars[k])
           /\ (/\ toolbar.to = toolbar.from + 2
               /\ Strong \in toolbar.chars[toolbar.from + 1]
               /\ Strong \notin toolbar.chars[toolbar.from + 2])
                => "strong" \notin toolbar.activeMarks

\* Two characters are selected, the first bold and the second not, and the
\* marks at the start of the selection include bold.
C31_Witness ==
    /\ toolbar.fresh
    /\ toolbar.to = toolbar.from + 2
    /\ Strong \in marksAt(toolbar.chars, toolbar.from)
    /\ Strong \in toolbar.chars[toolbar.from + 1]
    /\ Strong \notin toolbar.chars[toolbar.from + 2]
    /\ "strong" \notin toolbar.activeMarks

\* C38: after an update at a range selection every mark type that all the
\* selected characters carry is in the active set: a selection that is bold
\* throughout shows bold.
C38_AllCarryIsActive ==
    (toolbar.fresh /\ toolbar.from < toolbar.to)
        => \A type \in {"strong", "fontSize"} :
            (\A k \in Selected(toolbar) : type \in Types(toolbar.chars[k]))
                => type \in toolbar.activeMarks

\* The range selections the toolbar was updated at never show any mark.
C38_RangeShowsNothing ==
    (toolbar.fresh /\ toolbar.from < toolbar.to) => toolbar.activeMarks = {}

\* The whole paragraph is selected, all of it is bold, and the toolbar was
\* updated.
C38_WholeBoldSelected ==
    /\ toolbar.fresh
    /\ toolbar.from = 0
    /\ toolbar.to = Len(toolbar.chars)
    /\ toolbar.to > 0
    /\ \A k \in Selected(toolbar) : Strong \in toolbar.chars[k]

\* The size of the font-size mark of the k-th character of the text.
sizeAt(t, k) == sizeOf(CHOOSE m \in t.chars[k] : m.type = "fontSize")

\* C32: after an update at a range selection the reported font size is the
\* first font size met inside the range, and the default one when the range
\* has no font size; stated for the ranges all of whose characters have a font
\* size and for those none of whose characters has one.
C32_FirstSizeInRange ==
    (toolbar.fresh /\ toolbar.from < toolbar.to)
        => /\ (\A k \in Selected(toolbar) : "fontSize" \in Types(toolbar.chars[k]))
                => toolbar.fontSize = sizeAt(toolbar, toolbar.from + 1)
           /\ (\A k \in Selected(toolbar) : "fontSize" \notin Types(toolbar.chars[k]))
                => toolbar.fontSize = DefaultSize

\* What the code reports at a range: the first font size inside the range when
\* the character before the range (the first one, for a range from the start
\* of the paragraph) has a font size, whether or not a later character of the
\* range lacks one, and the default otherwise.
C32_SizeNeedsStartMark ==
    (toolbar.fresh /\ toolbar.from < toolbar.to)
        => LET sized == {k \in Selected(toolbar) :
                            "fontSize" \in Types(toolbar.chars[k])}
               first == CHOOSE k \in sized : \A j \in sized : k <= j
           IN  toolbar.fontSize =
                IF /\ "fontSize" \in Types(marksAt(toolbar.chars, toolbar.from))
                   /\ sized # {}
                THEN sizeAt(toolbar, first)
                ELSE DefaultSize

\* Text with a font size is selected behind text without one, and the default
\* size is reported.
C32_SizedAfterPlain ==
    /\ toolbar.fresh
    /\ toolbar.from > 0
    /\ toolbar.from < toolbar.to
    /\ "fontSize" \notin Types(toolbar.chars[toolbar.from])
    /\ \A k \in Selected(toolbar) : "fontSize" \in Types(toolbar.chars[k])
    /\ sizeAt(toolbar, toolbar.from + 1) # DefaultSize
    /\ toolbar.fontSize = DefaultSize

\* A range starts with a font size and goes on without one, and the size of
\* its start is reported.
C32_SizedThenPlain ==
    /\ toolbar.fresh
    /\ toolbar.from = 0
    /\ toolbar.to = 2
    /\ "fontSize" \in Types(toolbar.chars[1])
    /\ "fontSize" \notin Types(toolbar.chars[2])
    /\ toolbar.fontSize = sizeAt(toolbar, 1)
    /\ toolbar.fontSize # DefaultSize

\* --------------------------------------------------------------------------
\* The generation calls of one continueWriting call, under ClientSpec.

\* The i-th generation call is the first one of its attempt.
FirstOfAttempt(calls, i) == i = 1 \/ calls[i - 1].attempt # calls[i].attempt

\* C34: within one continueWriting call the first generation call of every
\* attempt, a retried one included, goes to the first model, the calls of an
\* attempt go down the list one model at a time, and there are never more
\* generation calls than maxRetries attempts of all the models of modelsToTry.
C34_ChainRestarts ==
    client.pc # "entry"
        => /\ \A i \in 1..Len(client.calls) :
                /\ client.calls[i].attempt \in 0..(maxRetries - 1)
                /\ IF FirstOfAttempt(client.calls, i)
                   THEN client.calls[i].model = 1
                   ELSE client.calls[i].model = client.calls[i - 1].model + 1
           /\ Len(client.calls) <= maxRetries * Len(modelsToTry)

\* Every attempt went through all the models: the models that answered "not
\* found" in one attempt were called again in the next, and the bound is met.
C34_Witness ==
    /\ Len(client.calls) = maxRetries * Len(modelsToTry)
    /\ client.calls[Len(modelsToTry) + 1] = Call(1, 1)
    /\ client.calls[2 * Len(modelsToTry) + 1] = Call(2, 1)
    /\ client.pc = "thrown"

\* --------------------------------------------------------------------------
\* Events the idle state has no transition for, under MachineSpec.

\* C37: AI_RESPONSE and ERROR sent to the machine in idle change nothing: the
\* state, the content, isLoading and the error are what they were.
C37_IgnoredInIdle ==
    (last.event.type \in {"AI_RESPONSE", "ERROR"} /\ last.before.value = "idle")
        => /\ machine.value = "idle"
           /\ machine.context.content = last.before.context.content
           /\ machine.context.isLoading = last.before.context.isLoading
           /\ machine.context.error = last.before.context.error

\* A result with text arrived in idle, the machine holding other content and
\* no error.
C37_Witness ==
    /\ last.event.type = "AI_RESPONSE"
    /\ last.event.content # <<>>
    /\ last.before.value = "idle"
    /\ last.before.context.content # <<>>
    /\ last.before.context.error = NULL
    /\ machine = last.before

\* An ERROR arrived in idle, the machine holding content and no error.
C37_WitnessError ==
    /\ last.event.type = "ERROR"
    /\ last.before.value = "idle"
    /\ last.before.context.content # <<>>
    /\ last.before.context.error = NULL
    /\ machine = last.before

\* --------------------------------------------------------------------------
\* Streams of the App, under Spec.

CyclesStreaming == {i \in 1..Len(cycles) : Streaming(cycles[i])}

\* C35: at most one call of streamContent is revealing text at any time, and
\* while one is, neither button can start another cycle.
C35_OneStreamAtATime ==
    /\ Cardinality(CyclesStreaming) <= 1
    /\ \A i \in CyclesStreaming :
        cycles[i].rest # <<>>
            => ~canContinue(machine.context) /\ ~canRetry(machine.context)

\* Two calls of streamContent have text left to reveal at the same time.
C35_TwoStreams ==
    \E i, j \in CyclesStreaming :
        i # j /\ cycles[i].rest # <<>> /\ cycles[j].rest # <<>>

\* A stream is revealing text while a second call is outstanding.
C35_CallDuringStream ==
    /\ \E i \in CyclesStreaming : cycles[i].rest # <<>>
    /\ CyclesInFlight # {}

----------------------------------------------------------------------------
(* EditorSpec: the ProseMirrorEditor component with its window timers, used *)
(* through its view and its handle by a parent that does what the App      *)
(* does: onChange sends CONTENT_UPDATED, and streamContent is called as    *)
(* handleContinueWriting calls it.  Time is counted in milliseconds; the   *)
(* App's model keeps of all this one pending text, its variable timer.     *)

MaxEdits == 3       \* transactions of the user and calls of the handle

debounceDelay == 100

\* what the parent passes to appendContent and streamContent
EditorContents == {<<"c">>, <<"\n", "c">>}

\* a pending window.setTimeout of handleChange
Timeout(id, text, left) == [id |-> id, text |-> text, left |-> left]

\* The component after its effect created the view.
\*   timers: the pending timeouts of handleChange; ref: onChangeTimeoutRef
\*       .current (0: null); ids: timeouts set so far
\*   pc, rest, wait: streamContent, as in the App's cycles, and the time left
\*       of the delay it awaits
\*   history: edits (transactions of the user and calls of the handle), text
\*       (the text content of the last transaction), since (the time since
\*       that transaction, up to debounceDelay), burst (the transactions less
\*       than debounceDelay apart, up to the last), reported (calls of
\*       onChange since the last transaction), report (the last call of
\*       onChange), replaced (setContent changed the document since the last
\*       transaction), early (streamContent returned for want of a view)
newEditor ==
    [timers |-> <<>>, ref |-> 0, ids |-> 0,
     pc |-> "ready", rest |-> <<>>, wait |-> 0,
     edits |-> 0, text |-> <<>>, since |-> debounceDelay, burst |-> 0,
     reported |-> 0, report |-> NULL, replaced |-> FALSE, early |-> FALSE]

\* A variant that sets the new timeout and leaves the pending one alone.
handleChange_noClear(e, textContent) ==
    [e EXCEPT
        !.timers = Append(@, Timeout(e.ids + 1, textContent, debounceDelay)),
        !.ref = e.ids + 1,
        !.ids = @ + 1]

\* handleChange: the timeout the ref names is cleared and a new one is set
handleChange(e, textContent) ==
    [e EXCEPT
        !.timers = Append(SelectSeq(@, LAMBDA t : t.id # e.ref),
                          Timeout(e.ids + 1, textContent, debounceDelay)),
        !.ref = e.ids + 1,
        !.ids = @ + 1]

\* dispatchTransaction on a live view, the new state's text being d
dispatchTransaction(e, d) ==
    [handleChange(e, d) EXCEPT
        !.text = d,
        !.burst = IF e.since < debounceDelay THEN @ + 1 ELSE 1,
        !.since = 0,
        !.reported = 0,
        !.replaced = FALSE]

EditorInit ==
    /\ machine = initialMachine
    /\ last = Sent(initialMachine, NoEvent)
    /\ apiKey = TRUE
    /\ view = TRUE
    /\ doc = <<>>
    /\ timer = NULL
    /\ isStreaming = FALSE
    /\ cycles = <<>>
    /\ retry = noCall
    /\ client = noCall
    /\ stream = noCall
    /\ toolbar = noCall
    /\ editor = newEditor

editorFrame == <<apiKey, timer, cycles, retry, client, stream, toolbar>>

\* The user types a character at the end: the view dispatches a transaction.
EditorTransaction ==
    /\ view
    /\ editor.edits < MaxEdits
    /\ doc' = Append(doc, "a")
    /\ editor' = [dispatchTransaction(editor, doc') EXCEPT !.edits = @ + 1]
    /\ UNCHANGED <<machine, last, view, isStreaming>>
    /\ UNCHANGED editorFrame

\* setContent(content): the view is given a new state; no transaction.
EditorSetContent ==
    /\ editor.edits < MaxEdits
    /\ \E content \in {<<>>, <<"b">>} :
        IF ~view
        THEN /\ editor' = [editor EXCEPT !.edits = @ + 1]
             /\ UNCHANGED doc
        ELSE /\ doc' = content
             /\ editor' = [editor EXCEPT
                    !.edits = @ + 1,
                    !.replaced = @ \/ content # doc]
    /\ UNCHANGED <<machine, last, view, isStreaming>>
    /\ UNCHANGED editorFrame

\* appendContent(content): a transaction that inserts the content at the end,
\* behind a space when the text ends in a character that is not whitespace.
EditorAppendContent ==
    /\ editor.edits < MaxEdits
    /\ \E content \in EditorContents :
        LET insertText == IF doc # <<>> /\ ~IsSpace(doc[Len(doc)])
                          THEN <<" ">> \o content ELSE content
        IN  IF ~view
            THEN /\ editor' = [editor EXCEPT !.edits = @ + 1]
                 /\ UNCHANGED doc
            ELSE /\ doc' = doc \o insertText
                 /\ editor' = [dispatchTransaction(editor, doc')
                                 EXCEPT !.edits = @ + 1]
    /\ UNCHANGED <<machine, last, view, isStreaming>>
    /\ UNCHANGED editorFrame

\* The parent holds the handle, sets isStreaming and calls streamContent with
\* an onComplete that clears it: streamContent up to its first await.
EditorStreamContent ==
    /\ editor.pc = "ready"
    /\ editor.edits < MaxEdits
    /\ \E content \in EditorContents :
        LET b == streamBegin(doc, content)
            e == [editor EXCEPT !.edits = @ + 1]
            t == IF b.changed THEN dispatchTransaction(e, b.doc) ELSE e
        IN  IF ~view
            THEN /\ isStreaming' = TRUE
                 /\ editor' = [e EXCEPT !.early = TRUE]
                 /\ UNCHANGED doc
            ELSE /\ doc' = b.doc
                 /\ isStreaming' = (b.pc # "done")
                 /\ editor' = [t EXCEPT
                        !.pc = IF b.pc = "done" THEN "ready" ELSE b.pc,
                        !.rest = b.rest,
                        !.wait = IF b.pc = "pause" THEN 30
                                 ELSE IF b.pc = "stream"
                                 THEN delayFor(b.doc[Len(b.doc)])
                                 ELSE 0]
    /\ UNCHANGED <<machine, last, view>>
    /\ UNCHANGED editorFrame

\* The delay streamContent awaits is over: the loop ends (or breaks, the view
\* being gone) and onComplete is called, or the next character is inserted.
EditorStreamTimer ==
    /\ editor.pc \in {"pause", "stream"}
    /\ editor.wait = 0
    /\ IF loopEnds(editor, view)
       THEN /\ editor' = [editor EXCEPT !.pc = "ready", !.rest = <<>>]
            /\ isStreaming' = FALSE
            /\ UNCHANGED doc
       ELSE /\ doc' = Append(doc, Head(editor.rest))
            /\ editor' = [dispatchTransaction(editor, doc') EXCEPT
                            !.pc = "stream",
                            !.rest = Tail(@),
                            !.wait = delayFor(Head(editor.rest))]
            /\ UNCHANGED isStreaming
    /\ UNCHANGED <<machine, last, view>>
    /\ UNCHANGED editorFrame

\* A timeout of handleChange is due: onChange, handleContentChange.
EditorTimeout ==
    /\ \E i \in 1..Len(editor.timers) :
        /\ editor.timers[i].left = 0
        /\ machine' = editorMachine(machine,
                            EvCONTENT_UPDATED(editor.timers[i].text))
        /\ last' = Sent(machine, EvCONTENT_UPDATED(editor.timers[i].text))
        /\ editor' = [editor EXCEPT
                !.timers = SelectSeq(@, LAMBDA t : t.id # editor.timers[i].id),
                !.reported = @ + 1,
                !.report = Str([text |-> editor.timers[i].text,
                                of |-> editor.text,
                                since |-> editor.since])]
    /\ UNCHANGED <<view, doc, isStreaming>>
    /\ UNCHANGED editorFrame

\* the time left of every pending timeout and delay
Lefts(e) ==
    {e.timers[i].left : i \in 1..Len(e.timers)}
        \cup (IF e.pc \in {"pause", "stream"} THEN {e.wait} ELSE {})

\* Time passes: up to the next timeout that is due, or half the debounce delay.
EditorTick ==
    /\ \E d \in Lefts(editor) \cup {debounceDelay \div 2, debounceDelay} :
        /\ d > 0
        /\ \A left \in Lefts(editor) : d <= left
        /\ Lefts(editor) # {} \/ editor.since < debounceDelay
        /\ editor' = [editor EXCEPT
                !.timers = [i \in 1..Len(@) |-> [@[i] EXCEPT !.left = @ - d]],
                !.wait = IF editor.pc \in {"pause", "stream"} THEN @ - d ELSE @,
                !.since = IF @ + d > debounceDelay THEN debounceDelay ELSE @ + d]
    /\ UNCHANGED <<machine, last, view, doc, isStreaming>>
    /\ UNCHANGED editorFrame

\* The cleanup of the effect that created the view: the timeout the ref names
\* is cleared and the view is destroyed.
EditorCleanup ==
    /\ view
    /\ view' = FALSE
    /\ editor' = [editor EXCEPT
            !.timers = SelectSeq(@, LAMBDA t : t.id # editor.ref)]
    /\ UNCHANGED <<machine, last, doc, isStreaming>>
    /\ UNCHANGED editorFrame

EditorNext ==
    \/ EditorTransaction
    \/ EditorSetContent
    \/ EditorAppendContent
    \/ EditorStreamContent
    \/ EditorStreamTimer
    \/ EditorTimeout
    \/ EditorTick
    \/ EditorCleanup

EditorSpec == EditorInit /\ [][EditorNext]_vars

\* Timers that are due fire and time goes on.
EditorFairSpec ==
    /\ EditorSpec
    /\ WF_vars(EditorStreamTimer)
    /\ WF_vars(EditorTimeout)
    /\ WF_vars(EditorTick)

----------------------------------------------------------------------------
(* Properties of the editor's debounced onChange and of its handle, under  *)
(* EditorSpec and EditorFairSpec                                           *)

\* C33: at most one timeout of handleChange is pending, it is the one of the
\* last transaction (every transaction cancels the one before and starts the
\* delay anew), and onChange is called debounceDelay after the last
\* transaction with that transaction's text: not at all within a burst, and
\* once after it while the editor stays mounted.
C33_Debounce ==
    /\ Len(editor.timers) <= 1
    /\ \A i \in 1..Len(editor.timers) :
        /\ editor.timers[i].id = editor.ref
        /\ editor.timers[i].text = editor.text
        /\ editor.timers[i].left = debounceDelay - editor.since
    /\ editor.report # NULL
            => /\ editor.report[1].text = editor.report[1].of
               /\ editor.report[1].since = debounceDelay
    /\ editor.reported <= 1
    /\ editor.timers # <<>> => editor.reported = 0
    /\ (view /\ editor.burst > 0 /\ editor.timers = <<>>)
            => editor.reported = 1

\* A burst of three transactions was reported once, with the last text.
C33_Witness ==
    /\ editor.burst = 3
    /\ editor.reported = 1
    /\ editor.report = Str([text |-> doc, of |-> doc, since |-> debounceDelay])
    /\ Len(doc) = 3
    /\ machine.context.content = doc

\* A transaction comes while the timeout of the one before is pending.
C33_WitnessPending ==
    /\ editor.burst = 2
    /\ editor.since = 0
    /\ Len(editor.timers) = 1
    /\ editor.ids = 2

C36_SetOnlyWhileRevealing ==
    (isStreaming /\ ~editor.early) => editor.pc \in {"pause", "stream"}

C36_StuckAfterEarlyReturn ==
    [][(editor.early /\ editor.pc = "ready" /\ isStreaming) => isStreaming']_vars

\* streamContent was called without a view: it returned, and isStreaming is
\* set with no call running.
C36_EarlyReturn ==
    /\ editor.early
    /\ editor.pc = "ready"
    /\ ~view
    /\ isStreaming

\* The view was destroyed during a reveal, the loop broke and onComplete
\* cleared isStreaming.
C36_BrokenReveal ==
    /\ ~view
    /\ ~editor.early
    /\ editor.pc = "ready"
    /\ last.event.type = "CONTENT_UPDATED"
    /\ Len(doc) > Len(machine.context.content)
    /\ ~isStreaming

\* C39: the text of the document and the content of the machine are the same
\* from some time on, the editor being mounted: every change made through the
\* handle has been reported by then.
C39_ContentFollowsDocument ==
    <>[](view => machine.context.content = doc)

\* The transactions are reported: with no timeout pending on a mounted editor
\* the machine has the text of the last transaction, which is the document's
\* unless setContent replaced it since.
C39_TransactionsReported ==
    (view /\ editor.timers = <<>>)
        => /\ machine.context.content = editor.text
           /\ ~editor.replaced => doc = editor.text

\* setContent replaced the text of the document and nothing is pending that
\* would tell the machine.
C39_SetContentUnreported ==
    /\ view
    /\ editor.replaced
    /\ editor.timers = <<>>
    /\ editor.pc = "ready"
    /\ machine.context.content # doc

====
